---- MODULE Spec2Model ----
(***************************************************************************)
(* supaDraw drawing canvas (src/canvas.py, src/tools.py) as a state        *)
(* machine: the DrawingCanvas fields are the variables, every handler is   *)
(* one action.                                                             *)
(*                                                                         *)
(* Numbers.  Coordinates and widths are Python floats in the source; here  *)
(* they are exact fixed-point integers in units of 1/Scale pixel.  Pointer *)
(* positions are whole pixels (QMouseEvent.pos() is a QPoint), so every    *)
(* midpoint and every smoothed point in the model is exact.              *)
(* Opacity is kept in hundredths.                                          *)
(*                                                                         *)
(* Optional values.  Python's None is the empty sequence: an optional      *)
(* QPointF is <<>> or <<x, y>>, the optional in-progress stroke is <<>> or *)
(* <<stroke>>.                                                             *)
(***************************************************************************)
EXTENDS Integers, Sequences, FiniteSets, TLC

\* ---------------------------------------------------------------- bounds
MaxStrokes == 2
MaxUndo == 2
EraseStrokes == 3
MaxPages == 2
PagesStrokes == 1
InsertPages == 3
InsertStrokes == 1
DragStrokes == 2

\* ------------------------------------------------------ program constants
Scale == 100
SMOOTHING_FACTOR == 3
MinWidth == 100
MaxWidth == 8000
DefaultWidth == 300
DefaultOpacity == 100

None == <<>>

ShapeTools == {"LINE", "RECTANGLE", "CIRCLE", "ARROW"}
FreehandTools == {"PEN", "HIGHLIGHTER", "CHISEL"}
ToolType == FreehandTools \cup ShapeTools \cup {"ERASER", "CURSOR"}

BackgroundType == {"none", "white", "grid", "lined", "dotted", "blackboard"}

InitialColor == "#1a1a2e"
EraserColor == "#f8f9fa"

\* TOOL_DEFAULTS.get(tool, {}).get("width", 3.0) / .get("opacity", 1.0)
ToolDefaultWidth(tool) ==
    CASE tool = "HIGHLIGHTER" -> 20 * Scale
      [] tool = "CHISEL" -> 8 * Scale
      [] tool = "ERASER" -> 25 * Scale
      [] OTHER -> DefaultWidth

ToolDefaultOpacity(tool) ==
    IF tool = "HIGHLIGHTER" THEN 35 ELSE DefaultOpacity

\* A pointer position of whole pixels as a QPointF.
Px(x, y) == <<x * Scale, y * Scale>>

\* bool(QPointF): PyQt's QPointF.__bool__ is "not isNull()", and None is
\* false, so both None and the point (0, 0) are falsy.
Truthy(pt) == pt # None /\ pt # <<0, 0>>

\* Variant of FreehandStroke: the first and last point are also stored as
\* start and end point.
FreehandStroke_Both(pts, color, width, tool, opacity) ==
    [points |-> pts, color |-> color, width |-> width, tool |-> tool,
     opacity |-> opacity, start_point |-> pts[1], end_point |-> pts[Len(pts)]]

\* Stroke(...): the dataclass of src/tools.py with its defaults.
FreehandStroke(pts, color, width, tool, opacity) ==
    [points |-> pts, color |-> color, width |-> width, tool |-> tool,
     opacity |-> opacity, start_point |-> None, end_point |-> None]

ShapeStroke(color, width, tool, opacity, s, e) ==
    [points |-> <<>>, color |-> color, width |-> width, tool |-> tool,
     opacity |-> opacity, start_point |-> s, end_point |-> e]

\* Page(background=bg): empty strokes and empty histories.
NewPage(bg) ==
    [strokes |-> <<>>, background |-> bg, undo_stack |-> <<>>,
     redo_stack |-> <<>>]

VARIABLES
    pages,              \* self.pages: sequence of Page records
    current_page_idx,   \* self.current_page_idx (0-based, as in the source)
    current_tool, current_color, current_width, current_opacity,
    drawing,            \* self.drawing
    current_stroke,     \* self.current_stroke: <<>> or <<stroke>>
    shape_start, shape_preview_end,
    desktop_mode,       \* self.desktop_mode
    page_label,         \* toolbar.page_label: <<current, total>> as shown
    curtain_mode,       \* curtain.mode
    curtain_hidden,     \* whether the curtain widget is hidden (hide / show)
    reveal_rect,        \* curtain.reveal_rect: <<x, y, width, height>>
    emitted,            \* the signals the last handler emitted, in order
    op,                 \* history: the handler that ran last
    at,                 \* history: the position of that pointer event
    log,                \* history: per page, the runs of edits made to it
    pressed             \* history: the settings at the press of the drag

canvas == <<pages, current_page_idx, current_tool, current_color,
            current_width, current_opacity, drawing, current_stroke,
            shape_start, shape_preview_end, desktop_mode>>
vars == <<pages, current_page_idx, current_tool, current_color,
          current_width, current_opacity, drawing, current_stroke,
          shape_start, shape_preview_end, desktop_mode, page_label,
          curtain_mode, curtain_hidden, reveal_rect,
          emitted, op, at, log, pressed>>

\* The CurtainOverlay's fields.
curtain == <<curtain_mode, curtain_hidden, reveal_rect>>

\* self.page
Page == pages[current_page_idx + 1]

Last(s) == s[Len(s)]
Front(s) == SubSeq(s, 1, Len(s) - 1)

\* ------------------------------------------------------------ edit log
\* History only: for every page, the edits that changed it, as runs of one
\* kind ("stroke", "shape", "undo", "redo", "erase", "clear").  The log keeps
\* the last three runs (cut: older runs were forgotten).  For the last two
\* it keeps the number n of edits in the run and the stroke list before the
\* run's first edit; of the third-last it keeps the kind only.
EmptyLog == [cut |-> FALSE, runs |-> <<>>]

KindOnly(runs) ==
    [i \in 1..Len(runs) |->
        IF i < Len(runs) THEN [runs[i] EXCEPT !.n = 0, !.before = <<>>]
        ELSE runs[i]]

LogEdit(l, kind, before) ==
    IF l.runs # <<>> /\ Last(l.runs).kind = kind
    THEN [l EXCEPT !.runs[Len(l.runs)].n = @ + 1]
    ELSE LET m == Append(KindOnly(l.runs),
                         [kind |-> kind, n |-> 1, before |-> before])
         IN  IF Len(m) > 3
             THEN [cut |-> TRUE, runs |-> Tail(m)]
             ELSE [l EXCEPT !.runs = m]

\* The kind of edit a handler made to the current page, read off the page
\* before and after ("none": the page is unchanged or only its background
\* changed).
EditKind(handler, before, after) ==
    IF before.strokes = after.strokes /\ before.undo_stack = after.undo_stack
    THEN "none"
    ELSE CASE handler = "release" ->
                IF Last(after.strokes).points # <<>> THEN "stroke" ELSE "shape"
           [] handler \in {"press", "move"} -> "erase"
           [] OTHER -> handler

\* pyqtSignal emissions: tool_changed(tool), color_changed(color),
\* page_changed(current, total)
ToolChanged(tool) == <<"tool_changed", tool>>
ColorChanged(color) == <<"color_changed", color>>
PageChanged(current, total) == <<"page_changed", current, total>>

\* FloatingToolbar.update_page_label, the slot connected to page_changed:
\* the label shows the current and total of the last page_changed signal.
UpdatePageLabel(signals) ==
    LET changes == {i \in DOMAIN signals : signals[i][1] = "page_changed"}
    IN  page_label' =
            IF changes = {} THEN page_label
            ELSE LET i == CHOOSE k \in changes : \A m \in changes : m <= k
                 IN  <<signals[i][2], signals[i][3]>>

\* History only: the settings in force when the press that started the
\* drag ran, and the position in the page list of the page that was current
\* then (a page inserted at or before it moves it up by one).  Kept while
\* the drag lasts and in the state the handler that ended it leaves; None
\* otherwise.  Used after drawing' and current_page_idx' are determined.
TrackPressed(handler) ==
    pressed' = IF handler = "press" /\ drawing'
               THEN <<[color |-> current_color, width |-> current_width,
                       opacity |-> current_opacity, tool |-> current_tool,
                       page |-> current_page_idx + 1]>>
               ELSE IF ~drawing \/ pressed = None THEN None
               ELSE IF handler = "add_page"
                       /\ current_page_idx' + 1 <= pressed[1].page
               THEN <<[pressed[1] EXCEPT !.page = @ + 1]>>
               ELSE pressed

\* Every handler that keeps the page list and the index records its name,
\* the position of its pointer event (None without one) and the edit it
\* made.  Used after pages' is determined.  A press or release of another
\* button than the left one is recorded as "press_other", "release_other".
TrackEmit(handler, pos, signals) ==
    /\ op' = handler
    /\ emitted' = signals
    /\ UpdatePageLabel(signals)
    /\ UNCHANGED curtain
    /\ at' = pos
    /\ TrackPressed(handler)
    /\ log' = LET k == EditKind(handler, Page, pages'[current_page_idx + 1])
              IN  IF k = "none" THEN log
                  ELSE [log EXCEPT ![current_page_idx + 1] =
                                        LogEdit(@, k, Page.strokes)]

TrackAt(handler, pos) == TrackEmit(handler, pos, <<>>)

Track(handler) == TrackAt(handler, None)

ButtonOp(handler, button) ==
    IF button = "Left" THEN handler
    ELSE IF handler = "press" THEN "press_other" ELSE "release_other"

\* --------------------------------------------------------- page edits
\* Variant of CommitPage: a freehand stroke is merged into the last
\* committed stroke if that is a freehand stroke too.
CommitPage_Merge(p, stroke) ==
    IF /\ p.strokes # <<>>
       /\ stroke.points # <<>>
       /\ p.strokes[Len(p.strokes)].points # <<>>
    THEN [p EXCEPT !.strokes[Len(p.strokes)].points = @ \o stroke.points,
                   !.redo_stack = <<>>]
    ELSE [p EXCEPT !.strokes = Append(@, stroke), !.redo_stack = <<>>]

\* page.strokes.append(stroke); page.redo_stack.clear()
CommitPage(p, stroke) ==
    [p EXCEPT !.strokes = Append(@, stroke), !.redo_stack = <<>>]

\* Variants of undo: the snapshot taken after the removal; no emptiness test;
\* the first stroke removed instead of the last.
UndoPage_SnapshotAfter(p) ==
    IF p.strokes # <<>>
    THEN [p EXCEPT !.undo_stack = Append(@, Front(p.strokes)),
                   !.strokes = Front(p.strokes)]
    ELSE p

UndoPage_NoGuard(p) ==
    [p EXCEPT !.undo_stack = Append(@, p.strokes),
              !.strokes = Front(p.strokes)]

UndoPage_RemoveFirst(p) ==
    IF p.strokes # <<>>
    THEN [p EXCEPT !.undo_stack = Append(@, p.strokes),
                   !.strokes = Tail(p.strokes)]
    ELSE p

\* Variant of undo: after a snapshot was pushed, undo puts the last
\* snapshot back.
UndoPage_Restore(p) ==
    IF p.undo_stack # <<>>
    THEN [p EXCEPT !.strokes = Last(p.undo_stack), !.undo_stack = Front(@)]
    ELSE IF p.strokes # <<>>
    THEN [p EXCEPT !.undo_stack = Append(@, p.strokes),
                   !.strokes = Front(p.strokes)]
    ELSE p

\* Variant of undo: the snapshot goes onto redo_stack.
UndoPage_PushRedo(p) ==
    IF p.strokes # <<>>
    THEN [p EXCEPT !.redo_stack = Append(@, p.strokes),
                   !.strokes = Front(p.strokes)]
    ELSE p

\* DrawingCanvas.undo on the current page
UndoPage(p) ==
    IF p.strokes # <<>>
    THEN [p EXCEPT !.undo_stack = Append(@, p.strokes),
                   !.strokes = Front(p.strokes)]
    ELSE p

\* Variant of redo: a snapshot as long as the list is restored too.
RedoPage_AtLeast(p) ==
    IF p.undo_stack # <<>>
    THEN LET last_state == Last(p.undo_stack)
             popped == [p EXCEPT !.undo_stack = Front(@)]
         IN  IF Len(last_state) >= Len(p.strokes)
             THEN [popped EXCEPT !.strokes = last_state]
             ELSE popped
    ELSE p

\* Variant of redo: the oldest snapshot is taken instead of the newest.
RedoPage_Oldest(p) ==
    IF p.undo_stack # <<>>
    THEN LET last_state == Head(p.undo_stack)
             popped == [p EXCEPT !.undo_stack = Tail(@)]
         IN  IF Len(last_state) > Len(p.strokes)
             THEN [popped EXCEPT !.strokes = last_state]
             ELSE popped
    ELSE p

\* DrawingCanvas.redo on the current page
RedoPage(p) ==
    IF p.undo_stack # <<>>
    THEN LET last_state == Last(p.undo_stack)
             popped == [p EXCEPT !.undo_stack = Front(@)]
         IN  IF Len(last_state) > Len(p.strokes)
             THEN [popped EXCEPT !.strokes = last_state]
             ELSE popped
    ELSE p

\* Variant of clear_page: no emptiness test.
ClearPagePage_NoGuard(p) ==
    [p EXCEPT !.undo_stack = Append(@, p.strokes), !.strokes = <<>>]

\* Variant of clear_page: the snapshot is taken after the list is emptied.
ClearPagePage_SnapshotAfter(p) ==
    IF p.strokes # <<>>
    THEN [p EXCEPT !.undo_stack = Append(@, <<>>), !.strokes = <<>>]
    ELSE p

\* DrawingCanvas.clear_page on the current page
ClearPagePage(p) ==
    IF p.strokes # <<>>
    THEN [p EXCEPT !.undo_stack = Append(@, p.strokes), !.strokes = <<>>]
    ELSE p

\* math.hypot(dx, dy) compared through its square (all values are >= 0).
Hypot2(dx, dy) == dx * dx + dy * dy

\* mid = ((start.x + end.x) / 2, (start.y + end.y) / 2)
Mid(s, e) == <<(s[1] + e[1]) \div 2, (s[2] + e[2]) \div 2>>

\* Variant of Survives: a freehand point at distance exactly eraser_radius
\* counts as a hit.
Survives_TouchHits(stroke, pos, eraser_radius) ==
    IF Truthy(stroke.start_point) /\ Truthy(stroke.end_point)
    THEN LET mid == Mid(stroke.start_point, stroke.end_point)
         IN  Hypot2(pos[1] - mid[1], pos[2] - mid[2])
                 > (eraser_radius * 2) * (eraser_radius * 2)
    ELSE ~ \E i \in 1..Len(stroke.points) :
               Hypot2(pos[1] - stroke.points[i][1], pos[2] - stroke.points[i][2])
                   <= eraser_radius * eraser_radius

\* The loop body of _erase_at: TRUE iff the stroke is appended to remaining.
Survives(stroke, pos, eraser_radius) ==
    IF Truthy(stroke.start_point) /\ Truthy(stroke.end_point)
    THEN LET mid == Mid(stroke.start_point, stroke.end_point)
         IN  Hypot2(pos[1] - mid[1], pos[2] - mid[2])
                 > (eraser_radius * 2) * (eraser_radius * 2)
    ELSE ~ \E i \in 1..Len(stroke.points) :
               Hypot2(pos[1] - stroke.points[i][1], pos[2] - stroke.points[i][2])
                   < eraser_radius * eraser_radius

\* Variant of ErasePage: the snapshot is pushed whether or not a stroke was
\* removed.
ErasePage_AlwaysPush(p, pos, eraser_radius) ==
    LET Keep(stroke) == Survives(stroke, pos, eraser_radius)
        remaining == SelectSeq(p.strokes, Keep)
    IN  [p EXCEPT !.undo_stack = Append(@, p.strokes),
                  !.strokes = remaining]

\* Variant of ErasePage: the snapshot is taken after the list was replaced.
ErasePage_SnapshotAfter(p, pos, eraser_radius) ==
    LET Keep(stroke) == Survives(stroke, pos, eraser_radius)
        remaining == SelectSeq(p.strokes, Keep)
    IN  IF Len(remaining) < Len(p.strokes)
        THEN [p EXCEPT !.undo_stack = Append(@, remaining),
                       !.strokes = remaining]
        ELSE p

\* DrawingCanvas._erase_at on the current page
ErasePage(p, pos, eraser_radius) ==
    LET Keep(stroke) == Survives(stroke, pos, eraser_radius)
        remaining == SelectSeq(p.strokes, Keep)
    IN  IF Len(remaining) < Len(p.strokes)
        THEN [p EXCEPT !.undo_stack = Append(@, p.strokes),
                       !.strokes = remaining]
        ELSE p

\* Variant of SmoothCoord: the factor itself is used as the weight of the
\* raw position.
SmoothCoord_Swapped(last, raw) ==
    last + ((raw - last) * SMOOTHING_FACTOR) \div 10

\* smoothed = last + (pos - last) * (1 - SMOOTHING_FACTOR), per coordinate
\* SMOOTHING_FACTOR is 0.3, kept in tenths.
SmoothCoord(last, raw) ==
    last + ((raw - last) * (10 - SMOOTHING_FACTOR)) \div 10

Smoothed(last, pos) ==
    <<SmoothCoord(last[1], pos[1]), SmoothCoord(last[2], pos[2])>>

\* Variant of ClampWidth: only the lower limit is applied.
ClampWidth_NoUpper(width) ==
    IF width < MinWidth THEN MinWidth ELSE width

\* max(1.0, min(80.0, width))
ClampWidth(width) ==
    IF width > MaxWidth THEN MaxWidth
    ELSE IF width < MinWidth THEN MinWidth ELSE width

\* ------------------------------------------------------------- handlers
\* Variant of SetPage: the edit lands on the first page.
SetPage_First(p) == pages' = [pages EXCEPT ![1] = p]

SetPage(p) == pages' = [pages EXCEPT ![current_page_idx + 1] = p]

tool_state == <<current_tool, current_color, current_width, current_opacity>>
drag_state == <<drawing, current_stroke, shape_start, shape_preview_end>>

\* Variant of set_tool: a tool without a defaults entry keeps the width.
SetTool_KeepWidth(tool) ==
    /\ current_tool' = tool
    /\ current_width' = IF tool = "CURSOR" THEN current_width
                        ELSE ToolDefaultWidth(tool)
    /\ current_opacity' = ToolDefaultOpacity(tool)
    /\ current_color' = IF tool = "ERASER" /\ Page.background # "none"
                        THEN EraserColor ELSE current_color
    /\ UNCHANGED <<pages, current_page_idx, drag_state>>
    /\ UNCHANGED desktop_mode
    /\ TrackEmit("set_tool", None, <<ToolChanged(tool)>>)

\* Variant of set_tool: leaving the eraser brings the initial colour back.
SetTool_RestoreInitial(tool) ==
    /\ current_tool' = tool
    /\ current_width' = ToolDefaultWidth(tool)
    /\ current_opacity' = ToolDefaultOpacity(tool)
    /\ current_color' = IF tool = "ERASER" /\ Page.background # "none"
                        THEN EraserColor
                        ELSE IF current_color = EraserColor
                        THEN InitialColor ELSE current_color
    /\ UNCHANGED <<pages, current_page_idx, drag_state>>
    /\ UNCHANGED desktop_mode
    /\ TrackEmit("set_tool", None, <<ToolChanged(tool)>>)

\* set_tool
SetTool(tool) ==
    /\ current_tool' = tool
    /\ current_width' = ToolDefaultWidth(tool)
    /\ current_opacity' = ToolDefaultOpacity(tool)
    /\ current_color' = IF tool = "ERASER" /\ Page.background # "none"
                        THEN EraserColor ELSE current_color
    /\ UNCHANGED <<pages, current_page_idx, drag_state>>
    /\ UNCHANGED desktop_mode
    /\ TrackEmit("set_tool", None, <<ToolChanged(tool)>>)

\* Variant of set_color: the in-progress stroke shares the colour object, so
\* the new colour shows in it too.
SetColor_Shared(color) ==
    /\ current_color' = color
    /\ current_stroke' = IF current_stroke = None THEN None
                         ELSE <<[current_stroke[1] EXCEPT !.color = color]>>
    /\ UNCHANGED <<pages, current_page_idx, current_tool, current_width,
                   current_opacity, drawing, shape_start, shape_preview_end>>
    /\ UNCHANGED desktop_mode
    /\ TrackEmit("set_color", None, <<ColorChanged(color)>>)

\* set_color
SetColor(color) ==
    /\ current_color' = color
    /\ UNCHANGED <<pages, current_page_idx, current_tool, current_width,
                   current_opacity, drag_state>>
    /\ UNCHANGED desktop_mode
    /\ TrackEmit("set_color", None, <<ColorChanged(color)>>)

\* set_width
SetWidth(width) ==
    /\ current_width' = ClampWidth(width)
    /\ UNCHANGED <<pages, current_page_idx, current_tool, current_color,
                   current_opacity, drag_state>>
    /\ UNCHANGED desktop_mode
    /\ Track("set_width")

\* set_background
SetBackground(bg) ==
    /\ SetPage([Page EXCEPT !.background = bg])
    /\ UNCHANGED <<current_page_idx, tool_state, drag_state>>
    /\ UNCHANGED desktop_mode
    /\ Track("set_background")

\* pages.insert(i, x) of a Python list, i a 0-based index within the list
Insert(s, i, x) == SubSeq(s, 1, i) \o <<x>> \o SubSeq(s, i + 1, Len(s))

\* Variant of add_page: the new page is appended at the end of the list.
AddPage_AtEnd ==
    /\ current_page_idx' = current_page_idx + 1
    /\ pages' = Append(pages, NewPage(Page.background))
    /\ emitted' = <<PageChanged((current_page_idx + 1) + 1, Len(pages) + 1)>>
    /\ log' = Append(log, EmptyLog)
    /\ UpdatePageLabel(emitted')
    /\ UNCHANGED curtain
    /\ op' = "add_page"
    /\ at' = None
    /\ TrackPressed("add_page")
    /\ UNCHANGED <<tool_state, drag_state, desktop_mode>>

\* Variant of add_page: the signal is emitted before the page is inserted.
AddPage_EmitBefore ==
    /\ current_page_idx' = current_page_idx + 1
    /\ pages' = Insert(pages, current_page_idx + 1, NewPage(Page.background))
    /\ emitted' = <<PageChanged(current_page_idx + 1, Len(pages))>>
    /\ log' = Insert(log, current_page_idx + 1, EmptyLog)
    /\ UpdatePageLabel(emitted')
    /\ UNCHANGED curtain
    /\ op' = "add_page"
    /\ at' = None
    /\ TrackPressed("add_page")
    /\ UNCHANGED <<tool_state, drag_state, desktop_mode>>

\* add_page
AddPage ==
    /\ current_page_idx' = current_page_idx + 1
    /\ pages' = Insert(pages, current_page_idx + 1, NewPage(Page.background))
    /\ emitted' = <<PageChanged((current_page_idx + 1) + 1, Len(pages) + 1)>>
    /\ log' = Insert(log, current_page_idx + 1, EmptyLog)
    /\ UpdatePageLabel(emitted')
    /\ UNCHANGED curtain
    /\ op' = "add_page"
    /\ at' = None
    /\ TrackPressed("add_page")
    /\ UNCHANGED <<tool_state, drag_state, desktop_mode>>

\* Variant of prev_page: no test of the index.
PrevPage_NoClamp ==
    /\ current_page_idx' = current_page_idx - 1
    /\ emitted' = <<PageChanged((current_page_idx - 1) + 1, Len(pages))>>
    /\ UpdatePageLabel(emitted')
    /\ UNCHANGED curtain
    /\ op' = "prev_page"
    /\ at' = None
    /\ TrackPressed("prev_page")
    /\ UNCHANGED <<pages, log, tool_state, drag_state, desktop_mode>>

\* prev_page
PrevPage ==
    /\ IF current_page_idx > 0
       THEN /\ current_page_idx' = current_page_idx - 1
            /\ emitted' = <<PageChanged((current_page_idx - 1) + 1, Len(pages))>>
       ELSE /\ UNCHANGED current_page_idx
            /\ emitted' = <<>>
    /\ UpdatePageLabel(emitted')
    /\ UNCHANGED curtain
    /\ op' = "prev_page"
    /\ at' = None
    /\ TrackPressed("prev_page")
    /\ UNCHANGED <<pages, log, tool_state, drag_state, desktop_mode>>

\* Variant of next_page: from the last page it wraps around to the first.
NextPage_Wrap ==
    /\ IF current_page_idx < Len(pages) - 1
       THEN /\ current_page_idx' = current_page_idx + 1
            /\ emitted' = <<PageChanged((current_page_idx + 1) + 1, Len(pages))>>
       ELSE /\ current_page_idx' = 0
            /\ emitted' = <<>>
    /\ UpdatePageLabel(emitted')
    /\ UNCHANGED curtain
    /\ op' = "next_page"
    /\ at' = None
    /\ TrackPressed("next_page")
    /\ UNCHANGED <<pages, log, tool_state, drag_state, desktop_mode>>

\* next_page
NextPage ==
    /\ IF current_page_idx < Len(pages) - 1
       THEN /\ current_page_idx' = current_page_idx + 1
            /\ emitted' = <<PageChanged((current_page_idx + 1) + 1, Len(pages))>>
       ELSE /\ UNCHANGED current_page_idx
            /\ emitted' = <<>>
    /\ UpdatePageLabel(emitted')
    /\ UNCHANGED curtain
    /\ op' = "next_page"
    /\ at' = None
    /\ TrackPressed("next_page")
    /\ UNCHANGED <<pages, log, tool_state, drag_state, desktop_mode>>

\* undo
Undo ==
    /\ SetPage(UndoPage(Page))
    /\ UNCHANGED <<current_page_idx, tool_state, drag_state>>
    /\ UNCHANGED desktop_mode
    /\ Track("undo")

\* redo
Redo ==
    /\ SetPage(RedoPage(Page))
    /\ UNCHANGED <<current_page_idx, tool_state, drag_state>>
    /\ UNCHANGED desktop_mode
    /\ Track("redo")

\* clear_page
ClearPage ==
    /\ SetPage(ClearPagePage(Page))
    /\ UNCHANGED <<current_page_idx, tool_state, drag_state>>
    /\ UNCHANGED desktop_mode
    /\ Track("clear")

\* toggle_desktop_mode: flips the flag (and the widget's click-through
\* attribute and cursor); no drawing field is touched.
ToggleDesktopMode ==
    /\ desktop_mode' = ~desktop_mode
    /\ UNCHANGED <<pages, current_page_idx, tool_state, drag_state>>
    /\ Track("toggle_desktop_mode")

\* OverlayWindow._set_draw_mode(draw): shows or hides the overlay window and
\* sets canvas.desktop_mode = not draw; no drawing field is touched.
SetDrawMode(draw) ==
    /\ desktop_mode' = ~draw
    /\ UNCHANGED <<pages, current_page_idx, tool_state, drag_state>>
    /\ Track("set_draw_mode")

\* Variant of mousePressEvent: the button is not tested.
MousePress_AnyButton(button, pos) ==
    /\ IF current_tool = "CURSOR"
       THEN UNCHANGED <<pages, drag_state>>
       ELSE IF current_tool \in ShapeTools
       THEN /\ shape_start' = pos
            /\ shape_preview_end' = pos
            /\ drawing' = TRUE
            /\ UNCHANGED <<pages, current_stroke>>
       ELSE IF current_tool = "ERASER"
       THEN /\ SetPage(ErasePage(Page, pos, current_width))
            /\ drawing' = TRUE
            /\ UNCHANGED <<current_stroke, shape_start, shape_preview_end>>
       ELSE /\ drawing' = TRUE
            /\ current_stroke' = <<FreehandStroke(<<pos>>, current_color,
                                      current_width, current_tool,
                                      current_opacity)>>
            /\ UNCHANGED <<pages, shape_start, shape_preview_end>>
    /\ UNCHANGED <<current_page_idx, tool_state>>
    /\ UNCHANGED desktop_mode
    /\ TrackAt(ButtonOp("press", button), pos)

\* mousePressEvent
MousePress(button, pos) ==
    /\ IF button # "Left" \/ current_tool = "CURSOR"
       THEN UNCHANGED <<pages, drag_state>>
       ELSE IF current_tool \in ShapeTools
       THEN /\ shape_start' = pos
            /\ shape_preview_end' = pos
            /\ drawing' = TRUE
            /\ UNCHANGED <<pages, current_stroke>>
       ELSE IF current_tool = "ERASER"
       THEN /\ SetPage(ErasePage(Page, pos, current_width))
            /\ drawing' = TRUE
            /\ UNCHANGED <<current_stroke, shape_start, shape_preview_end>>
       ELSE /\ drawing' = TRUE
            /\ current_stroke' = <<FreehandStroke(<<pos>>, current_color,
                                      current_width, current_tool,
                                      current_opacity)>>
            /\ UNCHANGED <<pages, shape_start, shape_preview_end>>
    /\ UNCHANGED <<current_page_idx, tool_state>>
    /\ UNCHANGED desktop_mode
    /\ TrackAt(ButtonOp("press", button), pos)

\* mouseMoveEvent
MouseMove(pos) ==
    /\ IF ~drawing
       THEN UNCHANGED <<pages, drag_state>>
       ELSE IF current_tool \in ShapeTools
       THEN /\ shape_preview_end' = pos
            /\ UNCHANGED <<pages, drawing, current_stroke, shape_start>>
       ELSE IF current_tool = "ERASER"
       THEN /\ SetPage(ErasePage(Page, pos, current_width))
            /\ UNCHANGED drag_state
       ELSE IF current_stroke # None
       THEN /\ current_stroke' =
                  <<[current_stroke[1] EXCEPT !.points =
                        Append(@, Smoothed(Last(@), pos))]>>
            /\ UNCHANGED <<pages, drawing, shape_start, shape_preview_end>>
       ELSE UNCHANGED <<pages, drag_state>>
    /\ UNCHANGED <<current_page_idx, tool_state>>
    /\ UNCHANGED desktop_mode
    /\ TrackAt("move", pos)

\* Variant of mouseReleaseEvent: a stroke of a single point is committed too.
MouseRelease_SinglePoint(button) ==
    /\ IF button # "Left" \/ ~drawing
       THEN UNCHANGED <<pages, drag_state>>
       ELSE /\ drawing' = FALSE
            /\ IF current_tool \in ShapeTools
               THEN /\ IF Truthy(shape_start) /\ Truthy(shape_preview_end)
                       THEN SetPage(CommitPage(Page,
                                ShapeStroke(current_color, current_width,
                                            current_tool, current_opacity,
                                            shape_start, shape_preview_end)))
                       ELSE UNCHANGED pages
                    /\ shape_start' = None
                    /\ shape_preview_end' = None
                    /\ UNCHANGED current_stroke
               ELSE /\ IF current_stroke # None
                          /\ Len(current_stroke[1].points) >= 1
                       THEN SetPage(CommitPage(Page, current_stroke[1]))
                       ELSE UNCHANGED pages
                    /\ current_stroke' = None
                    /\ UNCHANGED <<shape_start, shape_preview_end>>
    /\ UNCHANGED <<current_page_idx, tool_state>>
    /\ UNCHANGED desktop_mode
    /\ Track(ButtonOp("release", button))

\* Variant of mouseReleaseEvent: a shape takes the colour, the width and
\* the opacity in force at the press.
MouseRelease_PressSettings(button) ==
    /\ IF button # "Left" \/ ~drawing
       THEN UNCHANGED <<pages, drag_state>>
       ELSE /\ drawing' = FALSE
            /\ IF current_tool \in ShapeTools
               THEN /\ IF Truthy(shape_start) /\ Truthy(shape_preview_end)
                       THEN SetPage(CommitPage(Page,
                                ShapeStroke(pressed[1].color, pressed[1].width,
                                            current_tool, pressed[1].opacity,
                                            shape_start, shape_preview_end)))
                       ELSE UNCHANGED pages
                    /\ shape_start' = None
                    /\ shape_preview_end' = None
                    /\ UNCHANGED current_stroke
               ELSE /\ IF current_stroke # None
                          /\ Len(current_stroke[1].points) > 1
                       THEN SetPage(CommitPage(Page, current_stroke[1]))
                       ELSE UNCHANGED pages
                    /\ current_stroke' = None
                    /\ UNCHANGED <<shape_start, shape_preview_end>>
    /\ UNCHANGED <<current_page_idx, tool_state>>
    /\ UNCHANGED desktop_mode
    /\ Track(ButtonOp("release", button))

\* Variant of mouseReleaseEvent: the stroke goes to the page that was
\* current at the press.
MouseRelease_PressPage(button) ==
    /\ IF button # "Left" \/ ~drawing
       THEN UNCHANGED <<pages, drag_state>>
       ELSE /\ drawing' = FALSE
            /\ IF current_tool \in ShapeTools
               THEN /\ IF Truthy(shape_start) /\ Truthy(shape_preview_end)
                       THEN pages' = [pages EXCEPT ![pressed[1].page] =
                                CommitPage(@,
                                    ShapeStroke(current_color, current_width,
                                                current_tool, current_opacity,
                                                shape_start,
                                                shape_preview_end))]
                       ELSE UNCHANGED pages
                    /\ shape_start' = None
                    /\ shape_preview_end' = None
                    /\ UNCHANGED current_stroke
               ELSE /\ IF current_stroke # None
                          /\ Len(current_stroke[1].points) > 1
                       THEN pages' = [pages EXCEPT ![pressed[1].page] =
                                         CommitPage(@, current_stroke[1])]
                       ELSE UNCHANGED pages
                    /\ current_stroke' = None
                    /\ UNCHANGED <<shape_start, shape_preview_end>>
    /\ UNCHANGED <<current_page_idx, tool_state>>
    /\ UNCHANGED desktop_mode
    /\ Track(ButtonOp("release", button))

\* mouseReleaseEvent
MouseRelease(button) ==
    /\ IF button # "Left" \/ ~drawing
       THEN UNCHANGED <<pages, drag_state>>
       ELSE /\ drawing' = FALSE
            /\ IF current_tool \in ShapeTools
               THEN /\ IF Truthy(shape_start) /\ Truthy(shape_preview_end)
                       THEN SetPage(CommitPage(Page,
                                ShapeStroke(current_color, current_width,
                                            current_tool, current_opacity,
                                            shape_start, shape_preview_end)))
                       ELSE UNCHANGED pages
                    /\ shape_start' = None
                    /\ shape_preview_end' = None
                    /\ UNCHANGED current_stroke
               ELSE /\ IF current_stroke # None
                          /\ Len(current_stroke[1].points) > 1
                       THEN SetPage(CommitPage(Page, current_stroke[1]))
                       ELSE UNCHANGED pages
                    /\ current_stroke' = None
                    /\ UNCHANGED <<shape_start, shape_preview_end>>
    /\ UNCHANGED <<current_page_idx, tool_state>>
    /\ UNCHANGED desktop_mode
    /\ Track(ButtonOp("release", button))

\* --------------------------------------------------------------- painting
\* QRectF(topLeft, bottomRight): a corner and a signed width and height.
QRectF(s, e) == [x |-> s[1], y |-> s[2], w |-> e[1] - s[1], h |-> e[2] - s[2]]

\* Variant of QRectF.normalized(): only a negative width is swapped.
Normalized_WidthOnly(r) ==
    IF r.w < 0 THEN [r EXCEPT !.x = r.x + r.w, !.w = -r.w] ELSE r

\* QRectF.normalized(): a negative width or height is swapped into the
\* corner.
Normalized(r) ==
    LET a == IF r.w < 0 THEN [r EXCEPT !.x = r.x + r.w, !.w = -r.w] ELSE r
    IN  IF a.h < 0 THEN [a EXCEPT !.y = a.y + a.h, !.h = -a.h] ELSE a

\* _paint_stroke, shape branch: the draw call for a rectangle or a circle.
DrawBox(stroke) ==
    [call |-> IF stroke.tool = "RECTANGLE" THEN "drawRect" ELSE "drawEllipse",
     rect |-> Normalized(QRectF(stroke.start_point, stroke.end_point))]

\* Exact trigonometry for the directions the arrows of the model take.  An angle is a whole number of degrees, a multiple of 30; a cosine
\* or sine is exact as the pair <<r, q>> standing for (r + q * sqrt(3)) / 2.
Cos(deg) ==
    LET d == deg % 360
    IN  CASE d = 0 -> <<2, 0>>
          [] d \in {30, 330} -> <<0, 1>>
          [] d \in {60, 300} -> <<1, 0>>
          [] d \in {90, 270} -> <<0, 0>>
          [] d \in {120, 240} -> <<-1, 0>>
          [] d \in {150, 210} -> <<0, -1>>
          [] d = 180 -> <<-2, 0>>

Sin(deg) == Cos(deg - 90)

\* math.atan2(dy, dx) in degrees, for a direction along an axis
Atan2(dy, dx) ==
    CASE dy = 0 /\ dx >= 0 -> 0
      [] dy = 0 /\ dx < 0 -> 180
      [] dx = 0 /\ dy > 0 -> 90
      [] dx = 0 /\ dy < 0 -> -90

\* The head's angle to the arrow's direction, in degrees.
ArrowHeadAngle == 150

\* Variant of the arrow length: four times the width, without a minimum.
ArrowLen_NoMinimum(width) == 4 * width

\* arrow_len = max(15, pen.widthF() * 4)
ArrowLen(width) ==
    IF 15 * Scale >= 4 * width THEN 15 * Scale ELSE 4 * width

\* QPointF(end.x() + arrow_len * cos(a), end.y() + arrow_len * sin(a)):
\* each coordinate as the pair <<r, q>> standing for (r + q * sqrt(3)) / 2.
ArrowBackPoint(end, arrow_len, a) ==
    [x |-> <<2 * end[1] + arrow_len * Cos(a)[1], arrow_len * Cos(a)[2]>>,
     y |-> <<2 * end[2] + arrow_len * Sin(a)[1], arrow_len * Sin(a)[2]>>]

\* _draw_arrow: the line and the head polygon [end, p1, p2]
DrawArrow(stroke) ==
    LET start == stroke.start_point
        end == stroke.end_point
        angle == Atan2(end[2] - start[2], end[1] - start[1])
        arrow_len == ArrowLen(stroke.width)
    IN  [line |-> <<start, end>>,
         end |-> end,
         p1 |-> ArrowBackPoint(end, arrow_len, angle + ArrowHeadAngle),
         p2 |-> ArrowBackPoint(end, arrow_len, angle - ArrowHeadAngle)]

\* _paint_stroke issues a draw call for a stroke with two truthy shape
\* points if its tool is a shape tool, and for any other stroke if it has
\* at least two points.
DrawsStroke(stroke) ==
    IF Truthy(stroke.start_point) /\ Truthy(stroke.end_point)
    THEN stroke.tool \in ShapeTools
    ELSE Len(stroke.points) >= 2

PaintStroke(layer, stroke) ==
    IF DrawsStroke(stroke) THEN <<[layer |-> layer, stroke |-> stroke]>>
    ELSE <<>>

RECURSIVE PaintStrokes(_)
PaintStrokes(strokes) ==
    IF strokes = <<>> THEN <<>>
    ELSE PaintStroke("stroke", Head(strokes)) \o PaintStrokes(Tail(strokes))

\* The shape preview's opacity: current_opacity * 0.6
PreviewOpacity == (current_opacity * 6) \div 10

\* Variant of paintEvent: the shape preview is painted below the committed
\* strokes.
PaintEvent_PreviewFirst ==
    <<[layer |-> "background", background |-> Page.background]>>
    \o (IF drawing /\ Truthy(shape_start) /\ Truthy(shape_preview_end)
        THEN PaintStroke("preview",
                 ShapeStroke(current_color, current_width, current_tool,
                             PreviewOpacity, shape_start, shape_preview_end))
        ELSE <<>>)
    \o PaintStrokes(Page.strokes)
    \o (IF current_stroke # None /\ Len(current_stroke[1].points) > 1
        THEN PaintStroke("active", current_stroke[1])
        ELSE <<>>)
    \o (IF current_tool = "ERASER" /\ ~desktop_mode
        THEN <<[layer |-> "eraser", radius |-> current_width]>>
        ELSE <<>>)
    \o (IF Len(pages) > 1
        THEN <<[layer |-> "indicator", current |-> current_page_idx + 1,
                total |-> Len(pages)]>>
        ELSE <<>>)

\* paintEvent: the draw calls of one repaint, in order.
PaintEvent ==
    <<[layer |-> "background", background |-> Page.background]>>
    \o PaintStrokes(Page.strokes)
    \o (IF current_stroke # None /\ Len(current_stroke[1].points) > 1
        THEN PaintStroke("active", current_stroke[1])
        ELSE <<>>)
    \o (IF drawing /\ Truthy(shape_start) /\ Truthy(shape_preview_end)
        THEN PaintStroke("preview",
                 ShapeStroke(current_color, current_width, current_tool,
                             PreviewOpacity, shape_start, shape_preview_end))
        ELSE <<>>)
    \o (IF current_tool = "ERASER" /\ ~desktop_mode
        THEN <<[layer |-> "eraser", radius |-> current_width]>>
        ELSE <<>>)
    \o (IF Len(pages) > 1
        THEN <<[layer |-> "indicator", current |-> current_page_idx + 1,
                total |-> Len(pages)]>>
        ELSE <<>>)

\* DEFAULT_COLORS
DEFAULT_COLORS ==
    <<"#1a1a2e", "#e94560", "#0f3460", "#16c79a", "#f5a623",
      "#8b5cf6", "#ffffff", "#f472b6", "#06b6d4", "#84cc16">>

DigitKeys == <<"1", "2", "3", "4", "5", "6", "7", "8", "9">>
DigitIndex(key) == (CHOOSE i \in DOMAIN DigitKeys : DigitKeys[i] = key) - 1

\* The width step of the + / = / - keys, in pixels.
KeyWidthStep == 2 * Scale

\* super().keyPressEvent: the key is not handled by the canvas.
KeyIgnored ==
    /\ UNCHANGED <<pages, current_page_idx, tool_state, drag_state>>
    /\ UNCHANGED desktop_mode
    /\ Track("key_press")

\* keyPressEvent: key is the key's name, mod the set of modifiers held.
\* The branches are tried in the order of the code, so Ctrl+Shift+Z is
\* taken by the Ctrl+Z branch.
KeyPress(key, mod) ==
    IF key = "Z" /\ "Ctrl" \in mod THEN Undo
    ELSE IF key = "Y" /\ "Ctrl" \in mod THEN Redo
    ELSE IF key = "Z" /\ "Ctrl" \in mod /\ "Shift" \in mod THEN Redo
    ELSE IF key \in {"Delete", "Backspace"} /\ "Ctrl" \in mod THEN ClearPage
    ELSE IF \E i \in DOMAIN DigitKeys : DigitKeys[i] = key
         THEN IF DigitIndex(key) < Len(DEFAULT_COLORS)
              THEN SetColor(DEFAULT_COLORS[DigitIndex(key) + 1])
              ELSE KeyIgnored
    ELSE IF key \in {"Plus", "Equal"}
         THEN SetWidth(current_width + KeyWidthStep)
    ELSE IF key = "Minus" THEN SetWidth(current_width - KeyWidthStep)
    ELSE KeyIgnored

\* The wheel changes the width by one pixel per WheelUnit of angle delta.
WheelUnit == 60

\* wheelEvent: delta is event.angleDelta().y()
WheelEvent(delta) == SetWidth(current_width + (delta * Scale) \div WheelUnit)

\* ---------------------------------------------------------------- curtain
\* CurtainMode
CurtainMode == {"off", "full", "spotlight"}

\* The size of the curtain's parent, the canvas, which fills the screen.
ParentSize == <<1920, 1080>>

\* CurtainOverlay.set_mode: hide for OFF; otherwise show, and FULL resets
\* the reveal rectangle to the top third of the parent.
SetMode(mode) ==
    /\ curtain_mode' = mode
    /\ IF mode = "off"
       THEN /\ curtain_hidden' = TRUE
            /\ UNCHANGED reveal_rect
       ELSE /\ reveal_rect' =
                  IF mode = "full"
                  THEN <<0, 0, ParentSize[1], ParentSize[2] \div 3>>
                  ELSE reveal_rect
            /\ curtain_hidden' = FALSE

\* A curtain handler leaves the canvas and the toolbar alone.
TrackCurtain(handler) ==
    /\ UNCHANGED <<canvas, page_label, log>>
    /\ op' = handler
    /\ emitted' = <<>>
    /\ at' = None
    /\ TrackPressed(handler)

\* Variant of toggle: there is no spotlight step.
Toggle_TwoModes ==
    /\ IF curtain_mode = "off" THEN SetMode("full") ELSE SetMode("off")
    /\ TrackCurtain("curtain_toggle")

\* CurtainOverlay.toggle
Toggle ==
    /\ IF curtain_mode = "off" THEN SetMode("full")
       ELSE IF curtain_mode = "full" THEN SetMode("spotlight")
       ELSE SetMode("off")
    /\ TrackCurtain("curtain_toggle")

\* DrawingCanvas.__init__
Init ==
    /\ pages = <<NewPage("none")>>
    /\ current_page_idx = 0
    /\ current_tool = "PEN"
    /\ current_color = InitialColor
    /\ current_width = DefaultWidth
    /\ current_opacity = DefaultOpacity
    /\ desktop_mode = FALSE
    /\ page_label = <<1, 1>>
    /\ curtain_mode = "off"
    /\ curtain_hidden = TRUE
    /\ reveal_rect = <<0, 0, 0, 0>>
    /\ emitted = <<>>
    /\ drawing = FALSE
    /\ current_stroke = None
    /\ shape_start = None
    /\ shape_preview_end = None
    /\ op = "init"
    /\ at = None
    /\ log = <<EmptyLog>>
    /\ pressed = None

\* ------------------------------------------------------ specifications
\* Spec: one page, the pen, undo / redo / clear.  Two press positions give
\* two different strokes; the pointer moves at most once in a drag.
PressPos == {Px(10, 0), Px(20, 0)}
MovePos == {Px(30, 0)}

StrokeRoom == Len(Page.strokes) < MaxStrokes
UndoRoom == Len(Page.undo_stack) < MaxUndo
\* undo and clear_page push a snapshot only on a page that has strokes
PushRoom == Page.strokes = <<>> \/ UndoRoom
FirstMove == current_stroke # None => Len(current_stroke[1].points) = 1

Next ==
    \/ \E p \in PressPos : MousePress("Left", p)
    \/ \E p \in MovePos : FirstMove /\ MouseMove(p)
    \/ StrokeRoom /\ MouseRelease("Left")
    \/ PushRoom /\ Undo
    \/ Redo
    \/ PushRoom /\ ClearPage

Spec == Init /\ [][Next]_vars

\* SpecErase: one page, the pen, the line tool and the eraser, and redo.  The
\* pen draws the strokes (35,0),(17.5,0) and (35,0),(24.5,0), called F here,
\* the line tool one shape G from (100,0) to (80,0).  With the eraser's default width r = 25 the eraser
\* positions put F at distance exactly r, G's midpoint at distance exactly
\* 2r, and F within r while G's midpoint is beyond 2r; the narrower width
\* lets strokes survive that the default removes.
EraseTools == {"PEN", "LINE", "ERASER"}
PenPos == {Px(35, 0)}
PenTo == {Px(10, 0), Px(20, 0)}
LinePos == {Px(100, 0)}
LineTo == {Px(80, 0)}
ErasePos == {Px(50, 20), Px(60, 40), Px(30, 0)}
EraseWidths == {20 * Scale}

PressPosFor(tool) ==
    CASE tool = "PEN" -> PenPos
      [] tool = "LINE" -> LinePos
      [] OTHER -> ErasePos

MovePosFor(tool) ==
    CASE tool = "PEN" -> PenTo
      [] tool = "LINE" -> LineTo
      [] OTHER -> ErasePos

\* an erase query starts from an empty undo history (redo empties it again)
EraseRoom == current_tool = "ERASER" => Page.undo_stack = <<>>
\* the pointer moves exactly once in a line drag, at most once in a pen drag
LineMoved == shape_preview_end # shape_start
FirstDragMove == FirstMove /\ (current_tool = "LINE" => ~LineMoved)

NextErase ==
    \/ \E t \in EraseTools : ~drawing /\ SetTool(t)
    \/ \E w \in EraseWidths : current_tool = "ERASER" /\ SetWidth(w)
    \/ \E p \in PressPosFor(current_tool) :
           ~drawing /\ EraseRoom /\ MousePress("Left", p)
    \/ \E p \in MovePosFor(current_tool) :
           drawing /\ EraseRoom /\ FirstDragMove /\ MouseMove(p)
    \/ /\ Len(Page.strokes) < EraseStrokes
       /\ current_tool = "LINE" => LineMoved
       /\ MouseRelease("Left")
    \/ Redo

SpecErase == Init /\ [][NextErase]_vars

\* SpecPages: up to MaxPages pages; the pen draws the stroke (10,0),(24,0)
\* on whichever page is current, the eraser removes it, and undo, redo and
\* clear_page edit the page.  Pages are turned and edited between drags.
\* PagesStrokes bounds the strokes of all pages together, and a snapshot is
\* pushed only while every undo history is empty.
PagesPress == {Px(10, 0)}
PageBackgrounds == {"none", "white"}

Positions(m) == UNION {{<<i, j>> : j \in 1..m[i]} : i \in DOMAIN m}
TotalStrokes ==
    Cardinality(Positions([i \in 1..Len(pages) |-> Len(pages[i].strokes)]))
NoHistory == \A i \in 1..Len(pages) : pages[i].undo_stack = <<>>
PagesPushRoom == Page.strokes = <<>> \/ NoHistory

PagesTools == {"PEN", "ERASER"}
PagesEraseRoom == current_tool = "ERASER" => NoHistory

NextPages ==
    \/ ~drawing /\ Len(pages) < MaxPages /\ AddPage
    \/ ~drawing /\ PrevPage
    \/ ~drawing /\ NextPage
    \/ \E t \in PagesTools : ~drawing /\ SetTool(t)
    \/ \E p \in PagesPress : ~drawing /\ PagesEraseRoom /\ MousePress("Left", p)
    \/ \E p \in MovePos : drawing /\ PagesEraseRoom /\ FirstMove /\ MouseMove(p)
    \/ TotalStrokes < PagesStrokes /\ MouseRelease("Left")
    \/ ~drawing /\ PagesPushRoom /\ Undo
    \/ ~drawing /\ Redo
    \/ ~drawing /\ PagesPushRoom /\ ClearPage

SpecPages == Init /\ [][NextPages]_vars

\* SpecInsert: up to InsertPages pages, so that add_page also inserts between
\* two pages; pages differ by their background and by the pen strokes drawn
\* on them (InsertStrokes bounds the strokes of all pages together).  Pages
\* are added and turned also in the middle of a drag.
NextInsert ==
    \/ Len(pages) < InsertPages /\ AddPage
    \/ PrevPage
    \/ NextPage
    \/ \E bg \in PageBackgrounds : ~drawing /\ SetBackground(bg)
    \/ \E p \in PagesPress : ~drawing /\ MousePress("Left", p)
    \/ \E p \in MovePos : drawing /\ FirstMove /\ MouseMove(p)
    \/ TotalStrokes < InsertStrokes /\ MouseRelease("Left")

SpecInsert == Init /\ [][NextInsert]_vars

\* SpecDrag: one page, the pen and the line tool, selected at any time (also
\* between pointer-down and pointer-up); the pointer goes down at the
\* surface origin or at (10,0) and moves to (30,0); undo
\* and redo run between drags.  DragStrokes bounds the stroke list.
DragTools == {"PEN", "LINE"}
DragPress == {Px(0, 0), Px(10, 0)}
DragMove == {Px(30, 0)}

NextDrag ==
    \/ \E t \in DragTools : SetTool(t)
    \/ \E p \in DragPress : ~drawing /\ MousePress("Left", p)
    \/ \E p \in DragMove : drawing /\ FirstDragMove /\ MouseMove(p)
    \/ drawing /\ Len(Page.strokes) < DragStrokes /\ MouseRelease("Left")
    \/ ~drawing /\ PagesPushRoom /\ Undo
    \/ ~drawing /\ Redo

SpecDrag == Init /\ [][NextDrag]_vars

\* SpecCapture: one page, the pen and the line tool, and the two
\* ways into click-through mode.  While desktop_mode is set the surface is
\* hidden or transparent for pointer events, so none is delivered to it.
CaptureTools == {"PEN", "LINE"}

NextCapture ==
    \/ \E t \in CaptureTools : ~drawing /\ SetTool(t)
    \/ \E p \in PagesPress : ~drawing /\ ~desktop_mode /\ MousePress("Left", p)
    \/ \E p \in MovePos : ~desktop_mode /\ FirstDragMove /\ MouseMove(p)
    \/ /\ ~desktop_mode
       /\ Len(Page.strokes) < DragStrokes
       /\ MouseRelease("Left")
    \/ ToggleDesktopMode
    \/ \E draw \in BOOLEAN : SetDrawMode(draw)

SpecCapture == Init /\ [][NextCapture]_vars

\* SpecWidth: every way of changing the width (set_width, the + / = / - keys,
\* the wheel, a tool selection) and pen and line drags that commit strokes
\* with the width in force.  Requests below, inside and above the limits;
\* wheel deltas of one notch either way and of a long spin either way.
WidthRequests == {0, Scale \div 2, 40 * Scale, 100 * Scale}
WidthKeys == {"Plus", "Equal", "Minus", "A"}
WheelDeltas == {120, -120, 6000, -6000}
WidthDrawTools == {"PEN", "LINE"}
\* a drag starts at the lowest, the initial or the highest width
PressWidths == {MinWidth, DefaultWidth, MaxWidth}
WidthStrokes == 1

NextWidth ==
    \/ \E w \in WidthRequests : SetWidth(w)
    \/ \E k \in WidthKeys : ~drawing /\ KeyPress(k, {})
    \/ \E d \in WheelDeltas : ~drawing /\ WheelEvent(d)
    \/ \E t \in ToolType : ~drawing /\ SetTool(t)
    \/ \E p \in PagesPress :
           /\ ~drawing
           /\ current_tool \in WidthDrawTools
           /\ current_width \in PressWidths
           /\ MousePress("Left", p)
    \/ \E p \in MovePos : drawing /\ FirstDragMove /\ MouseMove(p)
    \/ drawing /\ Len(Page.strokes) < WidthStrokes /\ MouseRelease("Left")

SpecWidth == Init /\ [][NextWidth]_vars

\* SpecSettings: pen, highlighter and line drags with the colour and the
\* width changed at any time: before a press, between press and release,
\* and after the commit.
SettingsTools == {"PEN", "HIGHLIGHTER", "LINE"}
SettingsColors == {InitialColor, "#e94560"}
SettingsWidths == {DefaultWidth, 10 * Scale}
SettingsStrokes == 1

NextSettings ==
    \/ \E t \in SettingsTools : ~drawing /\ SetTool(t)
    \/ \E c \in SettingsColors : SetColor(c)
    \/ \E w \in SettingsWidths : SetWidth(w)
    \/ \E p \in PagesPress : ~drawing /\ MousePress("Left", p)
    \/ \E p \in MovePos : drawing /\ FirstDragMove /\ MouseMove(p)
    \/ drawing /\ Len(Page.strokes) < SettingsStrokes /\ MouseRelease("Left")

SpecSettings == Init /\ [][NextSettings]_vars

\* SpecIgnored: presses and releases of the left and of the right button,
\* moves with and without a drag, and the cursor tool next to the pen and
\* the line tool.
IgnoredTools == {"PEN", "LINE", "CURSOR"}
Buttons == {"Left", "Right"}
IgnoredStrokes == 1

NextIgnored ==
    \/ \E t \in IgnoredTools : SetTool(t)
    \/ \E b \in Buttons : \E p \in PagesPress : MousePress(b, p)
    \/ \E p \in MovePos : FirstDragMove /\ MouseMove(p)
    \/ \E b \in Buttons :
           Len(Page.strokes) < IgnoredStrokes /\ MouseRelease(b)

SpecIgnored == Init /\ [][NextIgnored]_vars

\* SpecSmooth: pen and highlighter drags of several moves, the pointer held
\* at one raw position or moved between two; the raw positions lie 100
\* pixels from the press position, to the left and below or to the right.
SmoothTools == {"PEN", "HIGHLIGHTER"}
SmoothPress == {Px(100, 100)}
SmoothRaw == {Px(0, 200), Px(200, 100), Px(100, 100)}
SmoothMoves == 3

NextSmooth ==
    \/ \E t \in SmoothTools : ~drawing /\ SetTool(t)
    \/ \E p \in SmoothPress : ~drawing /\ MousePress("Left", p)
    \/ \E p \in SmoothRaw :
           /\ drawing
           /\ Len(current_stroke[1].points) <= SmoothMoves
           /\ MouseMove(p)
    \/ drawing /\ Page.strokes = <<>> /\ MouseRelease("Left")

SpecSmooth == Init /\ [][NextSmooth]_vars

\* SpecPaint: what a repaint shows in the states of pen and line drags on
\* up to two pages, with the eraser selectable, the tool changed at any
\* time and click-through mode switched on and off.
PaintTools == {"PEN", "LINE", "ERASER"}
PaintStrokesMax == 2

NextPaint ==
    \/ \E t \in PaintTools : SetTool(t)
    \/ ~drawing /\ Len(pages) < MaxPages /\ AddPage
    \/ ~drawing /\ PrevPage
    \/ ~drawing /\ ToggleDesktopMode
    \/ \E p \in PagesPress :
           ~drawing /\ current_tool # "ERASER" /\ MousePress("Left", p)
    \/ \E p \in MovePos :
           drawing /\ current_tool # "ERASER" /\ FirstDragMove /\ MouseMove(p)
    \/ /\ drawing
       /\ current_page_idx = 0
       /\ Len(Page.strokes) < PaintStrokesMax
       /\ MouseRelease("Left")

SpecPaint == Init /\ [][NextPaint]_vars

\* SpecKeys: pen strokes on one page and the undo / redo shortcuts, each a
\* key with the set of modifiers held.
ShortcutKeys ==
    {<<"Z", {"Ctrl"}>>, <<"Y", {"Ctrl"}>>, <<"Z", {"Ctrl", "Shift"}>>}

NextKeys ==
    \/ \E p \in PagesPress : ~drawing /\ MousePress("Left", p)
    \/ \E p \in MovePos : drawing /\ FirstMove /\ MouseMove(p)
    \/ drawing /\ StrokeRoom /\ MouseRelease("Left")
    \/ \E k \in ShortcutKeys : ~drawing /\ PushRoom /\ KeyPress(k[1], k[2])

SpecKeys == Init /\ [][NextKeys]_vars

\* SpecBoxes: rectangle and circle drags between the corners of one square,
\* in every direction.
BoxTools == {"RECTANGLE", "CIRCLE"}
BoxCorners == {Px(50, 50), Px(200, 200), Px(50, 200), Px(200, 50)}
BoxStrokes == 1

NextBoxes ==
    \/ \E t \in BoxTools : ~drawing /\ SetTool(t)
    \/ \E p \in BoxCorners :
           ~drawing /\ current_tool \in BoxTools /\ MousePress("Left", p)
    \/ \E p \in BoxCorners : drawing /\ MouseMove(p)
    \/ drawing /\ Len(Page.strokes) < BoxStrokes /\ MouseRelease("Left")

SpecBoxes == Init /\ [][NextBoxes]_vars

\* SpecArrow: arrow drags from one point along the four axis directions,
\* with the width set at any time: the limits, the width at which four
\* widths are the minimum head length, its neighbours, and 5.
ArrowWidths ==
    {MinWidth, 374, 375, 376, 5 * Scale, MaxWidth}
ArrowStart == {Px(100, 100)}
ArrowEnds == {Px(200, 100), Px(100, 200), Px(0, 100), Px(100, 0)}
ArrowStrokes == 1

NextArrow ==
    \/ ~drawing /\ current_tool # "ARROW" /\ SetTool("ARROW")
    \/ \E w \in ArrowWidths : SetWidth(w)
    \/ \E p \in ArrowStart :
           ~drawing /\ current_tool = "ARROW" /\ MousePress("Left", p)
    \/ \E p \in ArrowEnds : drawing /\ MouseMove(p)
    \/ /\ drawing
       /\ shape_preview_end # shape_start
       /\ Len(Page.strokes) < ArrowStrokes
       /\ MouseRelease("Left")

SpecArrow == Init /\ [][NextArrow]_vars

\* SpecCurtain: the curtain toggled at any time, between and during pen
\* drags on the canvas below it.  A shown curtain covers the canvas, so a
\* drag starts only while the curtain is hidden.
NextCurtain ==
    \/ Toggle
    \/ \E p \in PressPos :
           ~drawing /\ curtain_hidden /\ MousePress("Left", p)
    \/ \E p \in MovePos : drawing /\ FirstMove /\ MouseMove(p)
    \/ drawing /\ StrokeRoom /\ MouseRelease("Left")

SpecCurtain == Init /\ [][NextCurtain]_vars

\* SpecSpan: pen and line drags with add_page, prev_page and next_page
\* invoked at any time, also between pointer-down and pointer-up.
SpanTools == {"PEN", "LINE"}
SpanStrokes == 1

NextSpan ==
    \/ \E t \in SpanTools : ~drawing /\ SetTool(t)
    \/ Len(pages) < MaxPages /\ AddPage
    \/ PrevPage
    \/ NextPage
    \/ \E p \in PagesPress : ~drawing /\ MousePress("Left", p)
    \/ \E p \in MovePos : drawing /\ FirstDragMove /\ MouseMove(p)
    \/ drawing /\ TotalStrokes < SpanStrokes /\ MouseRelease("Left")

SpecSpan == Init /\ [][NextSpan]_vars

\* SpecRemove: one page with two pen strokes far apart, an eraser press
\* that hits the first of them only, clear_page, undo and redo.  The eraser
\* and clear_page are used on a page whose undo history is empty.
RemoveTools == {"PEN", "ERASER"}
RemovePress == {Px(10, 0), Px(200, 0)}
RemoveErase == {Px(10, 0)}

NextRemove ==
    \/ \E t \in RemoveTools : ~drawing /\ SetTool(t)
    \/ \E p \in RemovePress :
           ~drawing /\ current_tool = "PEN" /\ MousePress("Left", p)
    \/ \E p \in RemoveErase :
           /\ ~drawing
           /\ current_tool = "ERASER"
           /\ Page.undo_stack = <<>>
           /\ MousePress("Left", p)
    \/ \E p \in MovePos :
           drawing /\ current_tool = "PEN" /\ FirstMove /\ MouseMove(p)
    \/ drawing /\ StrokeRoom /\ MouseRelease("Left")
    \/ ~drawing /\ PushRoom /\ Undo
    \/ ~drawing /\ Redo
    \/ ~drawing /\ Page.undo_stack = <<>> /\ ClearPage

SpecRemove == Init /\ [][NextRemove]_vars

\* SpecColor: backgrounds, the eraser next to the pen and the line tool,
\* colour choices by the palette and by a digit key, and pen and line drags.
\* Tools and backgrounds are chosen between drags.
ColorTools == {"PEN", "ERASER", "LINE"}
ColorDrawTools == {"PEN", "LINE"}
ColorChoices == {"#e94560"}
ColorKeys == {"1"}
ColorStrokes == 1

NextColor ==
    \/ \E bg \in PageBackgrounds : ~drawing /\ SetBackground(bg)
    \/ \E t \in ColorTools : ~drawing /\ SetTool(t)
    \/ \E c \in ColorChoices : SetColor(c)
    \/ \E k \in ColorKeys : ~drawing /\ KeyPress(k, {})
    \/ \E p \in PagesPress :
           /\ ~drawing
           /\ current_tool \in ColorDrawTools
           /\ MousePress("Left", p)
    \/ \E p \in MovePos : drawing /\ FirstDragMove /\ MouseMove(p)
    \/ drawing /\ Len(Page.strokes) < ColorStrokes /\ MouseRelease("Left")

SpecColor == Init /\ [][NextColor]_vars

\* ---------------------------------------------------------------- claims
\* The edit runs of page i (1-based position in pages), oldest first.
RunsOf(i) == log[i].runs
\* The k-th run of page i counted from the newest (k = 0: the newest).
RunBack(i, k) == RunsOf(i)[Len(RunsOf(i)) - k]
Runs == RunsOf(current_page_idx + 1)
Commits == {"stroke", "shape"}

\* C1 (as claimed): on a page, after one or more undos followed by the commit
\* of a new stroke, every later redo leaves the committed stroke list
\* unchanged.
\* The page's latest edits are: undos, one commit, then zero or more redos.
AfterUndoThenCommit ==
    LET r == Runs
        n == Len(r)
    IN  \/ /\ n >= 2
           /\ r[n].kind \in Commits /\ r[n].n = 1
           /\ r[n - 1].kind = "undo"
        \/ /\ n >= 3
           /\ r[n].kind = "redo"
           /\ r[n - 1].kind \in Commits /\ r[n - 1].n = 1
           /\ r[n - 2].kind = "undo"

C1_RedoAfterCommitIsNoOp ==
    [][(AfterUndoThenCommit /\ op' = "redo")
          => Page'.strokes = Page.strokes]_vars

\* C2: on a page with a non-empty stroke list S, undo followed by redo with
\* no other edit in between leaves the stroke list equal to S.
C2_UndoRedoRestores ==
    \A i \in 1..Len(pages) :
        (/\ Len(RunsOf(i)) >= 2
         /\ RunBack(i, 0).kind = "redo" /\ RunBack(i, 0).n = 1
         /\ RunBack(i, 1).kind = "undo" /\ RunBack(i, 1).n = 1)
        => pages[i].strokes = RunBack(i, 1).before

\* C2 witness: undo then redo happened on a list of two different strokes.
C2_Witness ==
    /\ Len(Runs) >= 2
    /\ RunBack(1, 0).kind = "redo" /\ RunBack(1, 0).n = 1
    /\ RunBack(1, 1).kind = "undo" /\ RunBack(1, 1).n = 1
    /\ Len(RunBack(1, 1).before) = 2
    /\ RunBack(1, 1).before[1] # RunBack(1, 1).before[2]
    /\ op = "redo"

\* C3 (as claimed): after an erase query that removed at least one stroke
\* from a page, with no other edit of the page since, a redo on that page
\* leaves the committed stroke list unchanged.
C3_RedoAfterEraseIsNoOp ==
    [][(Runs # <<>> /\ Last(Runs).kind = "erase" /\ op' = "redo")
          => Page'.strokes = Page.strokes]_vars

\* C4: from an empty page, N committed freehand strokes then N undos leave
\* the committed list empty; every further undo changes neither the list nor
\* the undo history (which holds the N snapshots the N undos pushed).
C4_UndoAllThenNoOp ==
    \A i \in 1..Len(pages) :
        /\ (~log[i].cut /\ RunsOf(i) = <<>>)
              => pages[i].strokes = <<>> /\ pages[i].undo_stack = <<>>
        /\ (/\ ~log[i].cut
            /\ Len(RunsOf(i)) = 2
            /\ RunsOf(i)[1].kind = "stroke"
            /\ RunsOf(i)[2].kind = "undo"
            /\ RunsOf(i)[2].n >= RunsOf(i)[1].n)
           => /\ RunsOf(i)[2].n = RunsOf(i)[1].n
              /\ pages[i].strokes = <<>>
              /\ Len(pages[i].undo_stack) = RunsOf(i)[1].n

\* C4 witness: two strokes were committed on the fresh page and undone, and
\* the handler that ran last was undo.
C4_Witness ==
    /\ ~log[1].cut
    /\ Len(Runs) = 2
    /\ Runs[1].kind = "stroke" /\ Runs[1].n = 2
    /\ Runs[2].kind = "undo" /\ Runs[2].n = 2
    /\ op = "undo"

\* C5: undo on a page with at least one stroke pushes exactly one snapshot,
\* equal to the stroke list, and removes exactly the last stroke; the earlier
\* strokes and the earlier snapshots stay as they were.
C5_UndoStep ==
    [][(op' = "undo" /\ Page.strokes # <<>>)
          => /\ Len(Page'.undo_stack) = Len(Page.undo_stack) + 1
             /\ Last(Page'.undo_stack) = Page.strokes
             /\ \A j \in 1..Len(Page.undo_stack) :
                    Page'.undo_stack[j] = Page.undo_stack[j]
             /\ Len(Page'.strokes) = Len(Page.strokes) - 1
             /\ \A j \in 1..Len(Page'.strokes) :
                    Page'.strokes[j] = Page.strokes[j]]_vars

\* C5 witness: undo has just removed the second of two different strokes.
C5_Witness ==
    /\ op = "undo"
    /\ Len(Page.strokes) = 1
    /\ Page.undo_stack # <<>>
    /\ Len(Last(Page.undo_stack)) = 2
    /\ Last(Page.undo_stack)[1] # Last(Page.undo_stack)[2]
    /\ Runs # <<>> /\ Last(Runs).kind = "undo"

\* C6: redo with a non-empty undo history removes exactly its most recent
\* snapshot, and restores it as the stroke list iff it is strictly longer
\* than the list; otherwise the list is unchanged.  redo with an empty undo
\* history changes nothing.
C6_RedoStep ==
    [][op' = "redo"
          => IF Page.undo_stack = <<>>
             THEN Page' = Page
             ELSE /\ Len(Page'.undo_stack) = Len(Page.undo_stack) - 1
                  /\ \A j \in 1..Len(Page'.undo_stack) :
                         Page'.undo_stack[j] = Page.undo_stack[j]
                  /\ Page'.strokes =
                         IF Len(Last(Page.undo_stack)) > Len(Page.strokes)
                         THEN Last(Page.undo_stack)
                         ELSE Page.strokes]_vars

\* C6 witness: a redo has popped a snapshot it did not restore, from a
\* history that held an older snapshot too.
C6_Witness ==
    /\ op = "redo"
    /\ Runs # <<>>
    /\ Last(Runs).kind = "redo" /\ Last(Runs).n = 1
    /\ Last(Runs).before = Page.strokes
    /\ Page.strokes # <<>>
    /\ Page.undo_stack # <<>>

\* C7 (as claimed): clearPage pushes a snapshot of the stroke list and
\* empties the list in every page state, the empty page included.
C7_ClearAlwaysPushes ==
    [][op' = "clear"
          => /\ Page'.undo_stack = Append(Page.undo_stack, Page.strokes)
             /\ Page'.strokes = <<>>]_vars

\* C7 (amended): clearPage on a page with strokes pushes one snapshot equal
\* to the stroke list and empties the list; on a page without strokes it
\* changes nothing and pushes no snapshot.
C7_ClearStep ==
    [][op' = "clear"
          => IF Page.strokes # <<>>
             THEN /\ Page'.undo_stack = Append(Page.undo_stack, Page.strokes)
                  /\ Page'.strokes = <<>>
             ELSE Page' = Page]_vars

\* C7 witness: clear has just emptied a list of two strokes.
C7_Witness ==
    /\ op = "clear"
    /\ Page.strokes = <<>>
    /\ Page.undo_stack # <<>>
    /\ Len(Last(Page.undo_stack)) = 2
    /\ Runs # <<>> /\ Last(Runs).kind = "clear"

\* The step is an erase query: the left button goes down, or the pointer
\* moves during a drag, with the eraser selected.
EraseQuery ==
    /\ current_tool = "ERASER"
    /\ op' = "press" \/ (op' = "move" /\ drawing)

\* A shape stroke carries a start and an end point, a freehand stroke its
\* point sequence.
IsShape(stroke) == stroke.start_point # None /\ stroke.end_point # None

\* The proximity predicate as stated: a freehand stroke is in range of p iff
\* one of its points is at distance < r from p; a shape stroke iff the
\* midpoint of its start and end points is at distance <= 2r from p
\* (|2p - start - end| <= 4r, compared through the squares).
InRange(stroke, p, r) ==
    IF IsShape(stroke)
    THEN LET dx == 2 * p[1] - stroke.start_point[1] - stroke.end_point[1]
             dy == 2 * p[2] - stroke.start_point[2] - stroke.end_point[2]
         IN  dx * dx + dy * dy <= (4 * r) * (4 * r)
    ELSE \E i \in 1..Len(stroke.points) :
             LET dx == p[1] - stroke.points[i][1]
                 dy == p[2] - stroke.points[i][2]
             IN  dx * dx + dy * dy < r * r

\* The strokes of list s that are out of range of p, in their order in s.
OutOfRange(s, p, r) ==
    LET Far(stroke) == ~InRange(stroke, p, r)
    IN  SelectSeq(s, Far)

\* C8: an erase query at p with radius r = current width removes a freehand
\* stroke iff one of its points is at distance < r from p and a shape stroke
\* iff the midpoint of its start and end points is at distance <= 2r from p;
\* every other stroke survives, whole and in place.
C8_ErasePredicate ==
    [][EraseQuery
          => Page'.strokes = OutOfRange(Page.strokes, at', current_width)]_vars

\* C8 witness: an erase query has just run at a point from which a surviving
\* freehand stroke has a point at distance exactly r, and it removed a
\* shape stroke.
C8_Witness ==
    /\ current_tool = "ERASER" /\ op \in {"press", "move"} /\ drawing
    /\ \E i \in 1..Len(Page.strokes) :
           \E j \in 1..Len(Page.strokes[i].points) :
               Hypot2(at[1] - Page.strokes[i].points[j][1],
                      at[2] - Page.strokes[i].points[j][2])
                   = current_width * current_width
    /\ Page.undo_stack # <<>>
    /\ \E k \in 1..Len(Last(Page.undo_stack)) :
           /\ IsShape(Last(Page.undo_stack)[k])
           /\ InRange(Last(Page.undo_stack)[k], at, current_width)
    /\ \A i \in 1..Len(Page.strokes) : ~IsShape(Page.strokes[i])

\* C9: an erase query that has no stroke in range changes nothing of the
\* page: stroke list, undo history and redo history stay as they were, at
\* pointer-down and at every move of an eraser drag.
C9_EraseMissIsNoOp ==
    [][(EraseQuery
        /\ \A i \in 1..Len(Page.strokes) :
               ~InRange(Page.strokes[i], at', current_width))
          => Page' = Page]_vars

\* C9 witness: during an eraser drag a query has just run on a page of
\* three strokes none of which is in range, and no query of the drag pushed
\* a snapshot.
C9_Witness ==
    /\ current_tool = "ERASER" /\ op = "move" /\ drawing
    /\ Len(Page.strokes) = 3
    /\ \A i \in 1..Len(Page.strokes) :
           ~InRange(Page.strokes[i], at, current_width)
    /\ Page.undo_stack = <<>>

\* C10: an erase query with at least one stroke in range pushes exactly one
\* entry onto the undo history, equal to the stroke list before the query,
\* and the new stroke list is the surviving strokes in their original
\* order.
C10_EraseHitSnapshots ==
    [][(EraseQuery
        /\ \E i \in 1..Len(Page.strokes) :
               InRange(Page.strokes[i], at', current_width))
          => /\ Page'.undo_stack = Append(Page.undo_stack, Page.strokes)
             /\ Len(Page'.strokes) < Len(Page.strokes)
             /\ \E f \in [1..Len(Page'.strokes) -> 1..Len(Page.strokes)] :
                    /\ \A j \in 1..Len(Page'.strokes) :
                           Page'.strokes[j] = Page.strokes[f[j]]
                    /\ \A j \in 1..(Len(Page'.strokes) - 1) : f[j] < f[j + 1]
                    /\ \A k \in 1..Len(Page.strokes) :
                           (\E j \in 1..Len(Page'.strokes) : f[j] = k)
                           <=> ~InRange(Page.strokes[k], at', current_width)]_vars

\* C10 witness: an erase query has just removed the middle one of three
\* strokes; the two survivors differ and the snapshot pushed is the list of
\* three.
C10_Witness ==
    /\ current_tool = "ERASER" /\ op \in {"press", "move"} /\ drawing
    /\ Len(Page.undo_stack) = 1
    /\ Len(Page.undo_stack[1]) = 3
    /\ Len(Page.strokes) = 2
    /\ Page.strokes[1] # Page.strokes[2]
    /\ Page.strokes = <<Page.undo_stack[1][1], Page.undo_stack[1][3]>>
    /\ InRange(Page.undo_stack[1][2], at, current_width)
    /\ Runs # <<>> /\ Last(Runs).kind = "erase" /\ Last(Runs).n = 1

\* C11: in every reachable state there is at least one page and
\* 0 <= current_page_idx < number of pages.
C11_IndexInRange ==
    /\ Len(pages) >= 1
    /\ 0 <= current_page_idx
    /\ current_page_idx < Len(pages)

\* C11 witness: prev_page has just been called on the first of two pages,
\* one of which was edited, and the index stayed 0.
C11_Witness ==
    /\ op = "prev_page"
    /\ emitted = <<>>
    /\ current_page_idx = 0
    /\ Len(pages) = 2
    /\ \E i \in 1..2 : pages[i].undo_stack # <<>>

\* C12: add_page inserts exactly one new page at position current index + 1,
\* with no strokes, empty histories and the background of the page that was
\* current, and makes it current; the pages before and after it are the old
\* pages, unchanged and in their order.  set_background changes the
\* background of the current page and nothing of any other page.
C12_AddPageInserts ==
    [][/\ op' = "add_page"
          => /\ Len(pages') = Len(pages) + 1
             /\ current_page_idx' = current_page_idx + 1
             /\ pages'[current_page_idx' + 1] =
                    [strokes |-> <<>>, background |-> Page.background,
                     undo_stack |-> <<>>, redo_stack |-> <<>>]
             /\ \A i \in 1..Len(pages) :
                    IF i <= current_page_idx + 1
                    THEN pages'[i] = pages[i]
                    ELSE pages'[i + 1] = pages[i]
       /\ op' = "set_background"
          => /\ Len(pages') = Len(pages)
             /\ \A i \in 1..Len(pages) :
                    i # current_page_idx + 1 => pages'[i] = pages[i]
             /\ Page'.strokes = Page.strokes]_vars

\* C12 witness: add_page has just inserted a page between two pages: the
\* page before it has a stroke and the white background the new page took
\* over, the page after it has the other background.
C12_Witness ==
    /\ op = "add_page"
    /\ Len(pages) = 3
    /\ current_page_idx = 1
    /\ pages[1].strokes # <<>>
    /\ pages[1].background = "white"
    /\ pages[2] = NewPage("white")
    /\ pages[3].background = "none"

\* C13: prev_page at index 0 and next_page at the last index change neither
\* the index nor the pages and emit no notification; otherwise they move the
\* index by exactly one (down, up) and leave the pages as they are.
C13_PagingClamps ==
    [][/\ op' = "prev_page"
          => /\ pages' = pages
             /\ IF current_page_idx = 0
                THEN current_page_idx' = 0 /\ emitted' = <<>>
                ELSE current_page_idx' = current_page_idx - 1
       /\ op' = "next_page"
          => /\ pages' = pages
             /\ IF current_page_idx = Len(pages) - 1
                THEN current_page_idx' = current_page_idx /\ emitted' = <<>>
                ELSE current_page_idx' = current_page_idx + 1]_vars

\* C13 witness: next_page has just been called on the last of three pages:
\* the index stayed and nothing was emitted.
C13_Witness ==
    /\ op = "next_page"
    /\ emitted = <<>>
    /\ Len(pages) = 3
    /\ current_page_idx = 2

\* The handlers that edit strokes and histories.
PageEdits == {"press", "move", "release", "undo", "redo", "clear"}

\* C14: a commit, an erase query, undo, redo and clear_page leave the index,
\* the number of pages and every page other than the current one unchanged.
\* add_page on page 1 of 1 makes page 2 of 2 current and prev_page then
\* returns to page 1 of 2.
C14_PagesIsolated ==
    [][/\ op' \in PageEdits
          => /\ Len(pages') = Len(pages)
             /\ current_page_idx' = current_page_idx
             /\ \A i \in 1..Len(pages) :
                    i # current_page_idx + 1 => pages'[i] = pages[i]
       /\ (op' = "add_page" /\ Len(pages) = 1)
          => current_page_idx' = 1 /\ Len(pages') = 2
       /\ (op' = "prev_page" /\ Len(pages) = 2 /\ current_page_idx = 1)
          => current_page_idx' = 0 /\ Len(pages') = 2]_vars

\* C14 witness: the second of two pages has just been edited; it holds a
\* stroke while the first page holds none but has a history of its own.
C14_Witness ==
    /\ op \in PageEdits
    /\ Len(pages) = 2
    /\ current_page_idx = 1
    /\ pages[2].strokes # <<>>
    /\ pages[2].undo_stack = <<>>
    /\ pages[1].strokes = <<>>
    /\ pages[1].undo_stack # <<>>

\* The step is a left pointer-up that ends a drag.
DragEnds == op' = "release" /\ drawing

\* C15: a pointer-up that ends a freehand drag (an in-progress stroke exists
\* and the tool is a freehand tool) appends the in-progress stroke to the
\* current page iff it has at least 2 points and otherwise leaves the page,
\* its history included, unchanged; either way there is no in-progress
\* stroke and no drag afterwards.
C15_FreehandRelease ==
    [][(DragEnds /\ current_tool \in FreehandTools /\ current_stroke # None)
          => /\ IF Len(current_stroke[1].points) >= 2
                THEN /\ Page'.strokes = Append(Page.strokes, current_stroke[1])
                     /\ Page'.undo_stack = Page.undo_stack
                ELSE Page' = Page
             /\ current_stroke' = None
             /\ drawing' = FALSE]_vars

\* C15 witness: a pointer-up has ended a drag with the pen selected, the
\* page's latest edit is the commit of one freehand stroke of 2 points after
\* an undo, and no stroke is in progress.
C15_Witness ==
    /\ op = "release"
    /\ ~drawing /\ current_stroke = None
    /\ current_tool = "PEN"
    /\ Len(Runs) >= 2
    /\ Last(Runs).kind = "stroke" /\ Last(Runs).n = 1
    /\ RunBack(1, 1).kind = "undo"
    /\ Page.strokes # <<>>
    /\ Len(Last(Page.strokes).points) = 2
    /\ Front(Page.strokes) = Last(Runs).before

\* C16 (as claimed): a pointer-up that ends a shape drag begun at p commits
\* exactly one shape stroke from p to the last pointer position, for every
\* p, the surface origin included, and clears the shape start and the
\* preview end and ends the drag.
C16_ShapeReleaseCommits ==
    [][(DragEnds /\ current_tool \in ShapeTools /\ shape_start # None)
          => /\ Len(Page'.strokes) = Len(Page.strokes) + 1
             /\ Last(Page'.strokes).start_point = shape_start
             /\ Last(Page'.strokes).end_point = shape_preview_end
             /\ shape_start' = None
             /\ shape_preview_end' = None
             /\ drawing' = FALSE]_vars

\* A freehand stroke: at least 2 points, neither start nor end point.
IsFreehandStroke(stroke) ==
    /\ Len(stroke.points) >= 2
    /\ stroke.start_point = None
    /\ stroke.end_point = None

\* A shape stroke: a start and an end point, no points.
IsShapeStroke(stroke) ==
    /\ stroke.points = <<>>
    /\ stroke.start_point # None
    /\ stroke.end_point # None

\* C17: every stroke of every page's committed list is a freehand stroke
\* (at least 2 points, no start or end point) or a shape stroke (start and
\* end point, no points).
C17_StrokeShape ==
    \A i \in 1..Len(pages) :
        \A j \in 1..Len(pages[i].strokes) :
            \/ IsFreehandStroke(pages[i].strokes[j])
            \/ IsShapeStroke(pages[i].strokes[j])

\* C17 witness: the page holds a freehand and a shape stroke, restored by a
\* redo after the tool was changed.
C17_Witness ==
    /\ op = "redo"
    /\ Len(Page.strokes) = 2
    /\ \E j \in 1..2 : IsFreehandStroke(Page.strokes[j])
    /\ \E j \in 1..2 : IsShapeStroke(Page.strokes[j])

\* The strokes of a page: those of its committed list and of the snapshots
\* of its undo history.
StrokesOf(p) ==
    {p.strokes[j] : j \in 1..Len(p.strokes)}
    \cup UNION {{p.undo_stack[k][j] : j \in 1..Len(p.undo_stack[k])} :
                   k \in 1..Len(p.undo_stack)}

\* C18: a committed stroke never changes.  In every step the strokes of the
\* committed list are strokes the page already had, in its list or in a
\* snapshot, each with all its attributes, except for the one stroke a
\* pointer-up appends at the end of the list; a pointer-move changes no
\* page at all.
C18_CommittedImmutable ==
    [][/\ op' = "move" /\ current_tool # "ERASER" => pages' = pages
       /\ \A j \in 1..Len(Page'.strokes) :
              \/ Page'.strokes[j] \in StrokesOf(Page)
              \/ /\ op' = "release"
                 /\ j = Len(Page'.strokes)
                 /\ Len(Page'.strokes) = Len(Page.strokes) + 1
                 /\ \A k \in 1..Len(Page.strokes) :
                        Page'.strokes[k] = Page.strokes[k]]_vars

\* C18 witness: a pen drag is under way, with a point appended by the last
\* pointer-move, on a page whose last committed stroke is a freehand stroke
\* that began at the same position.
C18_Witness ==
    /\ op = "move"
    /\ drawing /\ current_stroke # None
    /\ Len(current_stroke[1].points) = 2
    /\ Page.strokes # <<>>
    /\ IsFreehandStroke(Last(Page.strokes))
    /\ Last(Page.strokes).points[1] = current_stroke[1].points[1]

\* C19 (as claimed): when the surface goes into click-through mode or is
\* hidden in the middle of a drag, the drag is ended as by a pointer-up: no
\* drag, no in-progress stroke and no shape start remain.
C19_CaptureLossEndsDrag ==
    [][(/\ drawing
        /\ op' \in {"toggle_desktop_mode", "set_draw_mode"}
        /\ desktop_mode')
          => /\ drawing' = FALSE
             /\ current_stroke' = None
             /\ shape_start' = None]_vars

\* C20: the current width is within [1, 80] pixels in every state, a step
\* of set_width, of a + / = / - key or of the wheel sets it to the requested
\* width when that is within the limits and to the nearer limit otherwise,
\* a tool selection sets it to the tool's default, and every committed
\* stroke's width is within [1, 80].
WidthInRange ==
    /\ MinWidth <= current_width /\ current_width <= MaxWidth
    /\ \A i \in 1..Len(pages) : \A j \in 1..Len(pages[i].strokes) :
           /\ MinWidth <= pages[i].strokes[j].width
           /\ pages[i].strokes[j].width <= MaxWidth

Clamped(request, width) ==
    /\ request < MinWidth => width = MinWidth
    /\ request > MaxWidth => width = MaxWidth
    /\ (MinWidth <= request /\ request <= MaxWidth) => width = request

C20_WidthClamped ==
    [][/\ WidthInRange /\ WidthInRange'
       /\ \A w \in WidthRequests :
              SetWidth(w) => Clamped(w, current_width')
       /\ \A k \in {"Plus", "Equal"} :
              KeyPress(k, {}) =>
                  Clamped(current_width + 2 * Scale, current_width')
       /\ KeyPress("Minus", {}) =>
              Clamped(current_width - 2 * Scale, current_width')
       /\ \A d \in WheelDeltas :
              WheelEvent(d) =>
                  Clamped(current_width + (d * Scale) \div 60, current_width')
       /\ op' = "set_tool" =>
              current_width' = ToolDefaultWidth(current_tool')]_vars

\* C20 witness: a stroke was committed at the upper limit, reached by a
\* request above it, and the current width has since been clamped at the
\* lower limit.
C20_Witness ==
    /\ op = "set_width"
    /\ current_width = MinWidth
    /\ Page.strokes # <<>>
    /\ Page.strokes[1].width = MaxWidth

\* C21: a release that commits a shape stroke gives it the colour, the width
\* and the opacity that are current at the release, whatever they were at
\* the press.
C21_ShapeUsesReleaseSettings ==
    [][(/\ DragEnds
        /\ current_tool \in ShapeTools
        /\ Len(Page'.strokes) = Len(Page.strokes) + 1)
          => LET s == Last(Page'.strokes)
             IN  /\ IsShapeStroke(s)
                 /\ s.color = current_color
                 /\ s.width = current_width
                 /\ s.opacity = current_opacity
                 /\ s.tool = current_tool]_vars

\* C21 witness: a line was committed whose colour and width both differ
\* from those in force at its press.
C21_Witness ==
    /\ op = "release"
    /\ pressed # None
    /\ Page.strokes # <<>>
    /\ IsShapeStroke(Last(Page.strokes))
    /\ Last(Page.strokes).color # pressed[1].color
    /\ Last(Page.strokes).width # pressed[1].width

\* The colour, width, opacity and tool a stroke carries.
Settings(stroke) ==
    [color |-> stroke.color, width |-> stroke.width,
     opacity |-> stroke.opacity, tool |-> stroke.tool]

\* C22: an in-progress freehand stroke carries the colour, width, opacity
\* and tool in force at its press, the stroke committed at the release
\* carries them too, and set_color and set_width change neither the
\* in-progress stroke nor any page.
C22_FreehandKeepsPressSettings ==
    [][/\ current_stroke' # None
            => /\ pressed' # None
               /\ Settings(current_stroke'[1]) = Settings(pressed'[1])
       /\ (/\ DragEnds
           /\ current_stroke # None
           /\ Len(Page'.strokes) = Len(Page.strokes) + 1)
            => /\ IsFreehandStroke(Last(Page'.strokes))
               /\ Settings(Last(Page'.strokes)) = Settings(pressed'[1])
       /\ op' \in {"set_color", "set_width"}
            => pages' = pages /\ current_stroke' = current_stroke]_vars

\* C22 witness: a freehand stroke was committed with the colour and width
\* of its press although both were changed during the drag.
C22_Witness ==
    /\ op = "release"
    /\ pressed # None
    /\ Page.strokes # <<>>
    /\ IsFreehandStroke(Last(Page.strokes))
    /\ Settings(Last(Page.strokes)) = Settings(pressed[1])
    /\ current_color # pressed[1].color
    /\ current_width # pressed[1].width

\* C23: a press or a release of another button than the left one, a left
\* press while the tool is the cursor, and a move or a release while no drag
\* is in progress change nothing: not the drag, the in-progress stroke, the
\* shape points, the pages with their histories, or the settings.
IgnoredEvent ==
    \/ op' \in {"press_other", "release_other"}
    \/ op' = "press" /\ current_tool = "CURSOR"
    \/ op' \in {"move", "release"} /\ ~drawing

C23_IgnoredEventsChangeNothing ==
    [][IgnoredEvent => canvas' = canvas]_vars

\* C23 witness: a right-button release arrived in the middle of a pen drag
\* and the drag goes on with its two points.
C23_Witness ==
    /\ op = "release_other"
    /\ drawing
    /\ current_stroke # None
    /\ Len(current_stroke[1].points) = 2

\* C24: a step that changes the current-page index or the number of pages
\* emits exactly one page_changed, every page_changed emitted carries the
\* index + 1 and the number of pages as they are after the step, with
\* 1 <= current <= total, and so the toolbar's page label, set by the last
\* page_changed, always shows the actual current and total.
C24_PageChangedAccurate ==
    [][/\ (current_page_idx' # current_page_idx \/ Len(pages') # Len(pages))
            => emitted' = <<PageChanged(current_page_idx' + 1, Len(pages'))>>
       /\ \A i \in DOMAIN emitted' :
              emitted'[i][1] = "page_changed"
                  => /\ emitted'[i][2] = current_page_idx' + 1
                     /\ emitted'[i][3] = Len(pages')
                     /\ 1 <= emitted'[i][2]
                     /\ emitted'[i][2] <= emitted'[i][3]
       /\ page_label = <<current_page_idx + 1, Len(pages)>>
       /\ page_label' = <<current_page_idx' + 1, Len(pages')>>]_vars

\* C24 witness: after an add_page on the first of two pages the label
\* shows page 2 of 3.
C24_Witness ==
    /\ op = "add_page"
    /\ emitted = <<PageChanged(2, 3)>>
    /\ page_label = <<2, 3>>
    /\ current_page_idx = 1
    /\ Len(pages) = 3

\* The new coordinate q lies 70% of the way from last to raw: the distance
\* left to raw is 0.3 times the distance before, to within the resolution
\* of a coordinate (exactly, when that product is a representable
\* coordinate), and q lies between last and raw.
SeventyPercent(last, raw, q) ==
    /\ 10 * (raw - q) - SMOOTHING_FACTOR * (raw - last) < 10
    /\ SMOOTHING_FACTOR * (raw - last) - 10 * (raw - q) < 10
    /\ (last <= raw) => (last <= q /\ q <= raw)
    /\ (raw <= last) => (raw <= q /\ q <= last)

\* C25: a move during a freehand drag appends exactly one point; on each
\* axis the point lies 70% of the way from the last stored point to the raw
\* position, so the distance to the raw position is multiplied by 0.3 and
\* the point is never beyond the raw position.
C25_SmoothingStep ==
    [][(/\ op' = "move"
        /\ drawing
        /\ current_stroke # None
        /\ current_tool \in FreehandTools)
          => LET pts == current_stroke[1].points
                 last == pts[Len(pts)]
             IN  /\ current_stroke' # None
                 /\ Len(current_stroke'[1].points) = Len(pts) + 1
                 /\ SubSeq(current_stroke'[1].points, 1, Len(pts)) = pts
                 /\ \A c \in 1..2 :
                        SeventyPercent(last[c], at'[c],
                                       current_stroke'[1].points[Len(pts) + 1][c])]_vars

\* C25 witness: three moves with the pointer held 100 pixels to the right
\* of the press position left the stored points at 30, 9 and 2.7 pixels
\* from it.
C25_Witness ==
    /\ op = "move"
    /\ at = Px(200, 100)
    /\ current_stroke # None
    /\ current_stroke[1].points =
           <<Px(100, 100), <<17000, 10000>>, <<19100, 10000>>, <<19730, 10000>>>>

\* The layers of a repaint, from the bottom up.
LayerRank(layer) ==
    CASE layer = "background" -> 1
      [] layer = "stroke" -> 2
      [] layer = "active" -> 3
      [] layer = "preview" -> 4
      [] layer = "eraser" -> 5
      [] layer = "indicator" -> 6

LayersOf(kind) == SelectSeq(PaintEvent, LAMBDA l : l.layer = kind)

\* C26: a repaint paints the background first and once, then the committed
\* strokes of the current page in insertion order, then the in-progress
\* stroke exactly if it has at least 2 points, then the shape preview only
\* in a drag with a shape tool and at 0.6 times the current opacity, then
\* the eraser indicator exactly if the tool is the eraser and the surface
\* is not click-through, then the page indicator exactly if there is more
\* than one page.
C26_PaintOrder ==
    /\ \A i \in 1..Len(PaintEvent) - 1 :
           LayerRank(PaintEvent[i].layer) <= LayerRank(PaintEvent[i + 1].layer)
    /\ LayersOf("background") =
           <<[layer |-> "background", background |-> Page.background]>>
    /\ LayersOf("stroke") =
           [i \in 1..Len(Page.strokes) |->
               [layer |-> "stroke", stroke |-> Page.strokes[i]]]
    /\ IF current_stroke # None /\ Len(current_stroke[1].points) >= 2
       THEN LayersOf("active") =
                <<[layer |-> "active", stroke |-> current_stroke[1]]>>
       ELSE LayersOf("active") = <<>>
    /\ Len(LayersOf("preview")) <= 1
    /\ LayersOf("preview") # <<>>
           => /\ drawing
              /\ current_tool \in ShapeTools
              /\ LET s == LayersOf("preview")[1].stroke
                 IN  /\ s.start_point = shape_start
                     /\ s.end_point = shape_preview_end
                     /\ 10 * s.opacity = 6 * current_opacity
    /\ Len(LayersOf("eraser")) = IF current_tool = "ERASER" /\ ~desktop_mode
                                 THEN 1 ELSE 0
    /\ Len(LayersOf("indicator")) = IF Len(pages) > 1 THEN 1 ELSE 0

\* C26 witness: in a line drag on the first of two pages, with two
\* committed strokes, a repaint shows the background, the two strokes, the
\* preview and the page indicator.
C26_Witness ==
    /\ op = "move"
    /\ drawing
    /\ current_tool = "LINE"
    /\ Len(pages) = 2
    /\ Len(Page.strokes) = 2
    /\ Len(PaintEvent) = 5
    /\ PaintEvent[4].layer = "preview"
    /\ PaintEvent[5].layer = "indicator"

\* C27 (as claimed): a key press of Ctrl+Z is one undo, a key press of
\* Ctrl+Y is one redo, and a key press of Ctrl+Shift+Z is one redo.
C27_ShortcutsDispatch ==
    [][/\ KeyPress("Z", {"Ctrl"}) => Undo
       /\ KeyPress("Y", {"Ctrl"}) => Redo
       /\ KeyPress("Z", {"Ctrl", "Shift"}) => Redo]_vars

\* The rectangle and circle layers of a repaint: committed ones and the
\* preview.
BoxLayers ==
    {i \in 1..Len(PaintEvent) :
        /\ PaintEvent[i].layer \in {"stroke", "preview"}
        /\ PaintEvent[i].stroke.tool \in {"RECTANGLE", "CIRCLE"}}

Lower(a, b) == IF a <= b THEN a ELSE b
Higher(a, b) == IF a <= b THEN b ELSE a

\* C28: a rectangle or circle is drawn in the box whose corners are the
\* lower and the higher of the start and end coordinates on each axis, so
\* two shapes dragged between the same two corners in opposite or crossed
\* directions get the same box; start (200,200) and end (50,50) give the
\* box with corners (50,50) and (200,200).
C28_NormalizedBox ==
    /\ \A i \in BoxLayers :
           LET s == PaintEvent[i].stroke.start_point
               e == PaintEvent[i].stroke.end_point
               r == DrawBox(PaintEvent[i].stroke).rect
           IN  /\ r.x = Lower(s[1], e[1]) /\ r.x + r.w = Higher(s[1], e[1])
               /\ r.y = Lower(s[2], e[2]) /\ r.y + r.h = Higher(s[2], e[2])
               /\ (s = Px(200, 200) /\ e = Px(50, 50))
                     => r = [x |-> 50 * Scale, y |-> 50 * Scale,
                             w |-> 150 * Scale, h |-> 150 * Scale]
    /\ \A i, j \in BoxLayers :
           LET a == PaintEvent[i].stroke
               b == PaintEvent[j].stroke
           IN  ({a.start_point[1], a.end_point[1]}
                    = {b.start_point[1], b.end_point[1]}
                /\ {a.start_point[2], a.end_point[2]}
                    = {b.start_point[2], b.end_point[2]})
                 => DrawBox(a).rect = DrawBox(b).rect

\* C28 witness: a rectangle dragged from (200,200) to (50,50) is committed
\* and a rectangle preview runs from (50,200) to (200,50); both are drawn
\* in the box with corners (50,50) and (200,200).
C28_Witness ==
    /\ drawing
    /\ current_tool = "RECTANGLE"
    /\ Len(Page.strokes) = 1
    /\ Page.strokes[1].tool = "RECTANGLE"
    /\ Page.strokes[1].start_point = Px(200, 200)
    /\ Page.strokes[1].end_point = Px(50, 50)
    /\ shape_start = Px(50, 200)
    /\ shape_preview_end = Px(200, 50)
    /\ Cardinality(BoxLayers) = 2
    /\ DrawBox(Page.strokes[1]).rect =
           [x |-> 50 * Scale, y |-> 50 * Scale,
            w |-> 150 * Scale, h |-> 150 * Scale]

\* The arrow layers of a repaint: committed ones and the preview.
ArrowLayers ==
    {i \in 1..Len(PaintEvent) :
        /\ PaintEvent[i].layer \in {"stroke", "preview"}
        /\ PaintEvent[i].stroke.tool = "ARROW"}

\* The vectors of length 1 whose coordinates are (r + q * sqrt(3)) / 2 with
\* whole r and q, as <<xr, xq, yr, yq>>: the squares add up to 1.
UnitVectors ==
    {u \in (-2..2) \X (-2..2) \X (-2..2) \X (-2..2) :
        /\ u[1] * u[1] + 3 * u[2] * u[2] + u[3] * u[3] + 3 * u[4] * u[4] = 4
        /\ u[1] * u[2] + u[3] * u[4] = 0}

\* p lies at distance len from end: p - end is len times a unit vector.
AtDistance(p, end, len) ==
    \E u \in UnitVectors :
        /\ p.x = <<2 * end[1] + len * u[1], len * u[2]>>
        /\ p.y = <<2 * end[2] + len * u[3], len * u[4]>>

\* C29: for an arrow of any width in [1, 80] the two back points of the
\* head lie at distance max(15, 4 x width) from the end point: 20 for
\* width 5, 15 for every width up to 3.75.
C29_ArrowHeadLength ==
    \A i \in ArrowLayers :
        LET a == PaintEvent[i].stroke
            len == IF a.width = 5 * Scale THEN 20 * Scale
                   ELSE IF 4 * a.width <= 15 * Scale THEN 15 * Scale
                   ELSE 4 * a.width
        IN  /\ MinWidth <= a.width /\ a.width <= MaxWidth
            /\ DrawArrow(a).p1 # DrawArrow(a).p2
            /\ AtDistance(DrawArrow(a).p1, a.end_point, len)
            /\ AtDistance(DrawArrow(a).p2, a.end_point, len)

\* C29 witness: a committed arrow of width 3.75 has a head of length 15
\* while the preview of an arrow of width 5 has one of length 20.
C29_Witness ==
    /\ drawing
    /\ Len(Page.strokes) = 1
    /\ Page.strokes[1].tool = "ARROW"
    /\ Page.strokes[1].width = 375
    /\ AtDistance(DrawArrow(Page.strokes[1]).p1,
                  Page.strokes[1].end_point, 15 * Scale)
    /\ current_width = 5 * Scale
    /\ Cardinality(ArrowLayers) = 2
    /\ \E i \in ArrowLayers :
           /\ PaintEvent[i].layer = "preview"
           /\ AtDistance(DrawArrow(PaintEvent[i].stroke).p2,
                         shape_preview_end, 20 * Scale)

\* The cycle of the curtain modes.
Cycle(mode) ==
    CASE mode = "off" -> "full"
      [] mode = "full" -> "spotlight"
      [] mode = "spotlight" -> "off"

\* C30: a curtain toggle takes the mode one step along the cycle
\* off -> full -> spotlight -> off, three steps of which lead back to the
\* mode they started from; no other step changes the mode; and the curtain
\* widget is hidden exactly when the mode is off.
C30_CurtainCycle ==
    [][/\ curtain_mode \in CurtainMode
       /\ Cycle(Cycle(Cycle(curtain_mode))) = curtain_mode
       /\ curtain_mode' = IF op' = "curtain_toggle" THEN Cycle(curtain_mode)
                          ELSE curtain_mode
       /\ curtain_hidden <=> curtain_mode = "off"
       /\ curtain_hidden' <=> curtain_mode' = "off"]_vars

\* C30 witness: a toggle has brought the curtain back to off and hidden
\* after it was shown as a full curtain.
C30_Witness ==
    /\ op = "curtain_toggle"
    /\ curtain_mode = "off"
    /\ curtain_hidden
    /\ reveal_rect # <<0, 0, 0, 0>>

Committable ==
    IF current_tool \in ShapeTools
    THEN Truthy(shape_start) /\ Truthy(shape_preview_end)
    ELSE current_stroke # None /\ Len(current_stroke[1].points) >= 2

\* C32: a pointer-up that ends a drag with something to commit appends one
\* stroke to the page current at the pointer-up and changes no other page,
\* in particular not the page that was current at the pointer-down when a
\* page change came in between.
C32_CommitOnReleasePage ==
    [][(DragEnds /\ pressed # None /\ Committable)
          => /\ Len(Page'.strokes) = Len(Page.strokes) + 1
             /\ current_page_idx' = current_page_idx
             /\ \A i \in 1..Len(pages) :
                    i # current_page_idx + 1 => pages'[i] = pages[i]
             /\ pressed'[1].page # current_page_idx + 1
                    => pages'[pressed'[1].page] = pages[pressed'[1].page]]_vars

\* C32 witness: a line pressed on one page was committed on another, and
\* the page of the press is empty.
C32_Witness ==
    /\ op = "release"
    /\ pressed # None
    /\ pressed[1].page # current_page_idx + 1
    /\ Page.strokes # <<>>
    /\ IsShapeStroke(Last(Page.strokes))
    /\ pages[pressed[1].page].strokes = <<>>

\* C33: undo removes the last stroke of the list, or does nothing on an
\* empty list, whatever was removed before by the eraser or by clear_page;
\* the number of strokes grows only by a commit, which appends one new
\* stroke, or by redo.
C33_UndoNeverRestores ==
    [][/\ op' = "undo"
          => Page'.strokes = IF Page.strokes = <<>> THEN <<>>
                             ELSE Front(Page.strokes)
       /\ Len(Page'.strokes) > Len(Page.strokes)
          => \/ op' = "redo"
             \/ /\ op' = "release"
                /\ Front(Page'.strokes) = Page.strokes]_vars

\* C33 witness: the eraser removed the first of two strokes and the undo
\* that followed removed the remaining one; the page is empty.
C33_Witness ==
    /\ op = "undo"
    /\ Page.strokes = <<>>
    /\ Len(Runs) >= 2
    /\ RunBack(1, 0).kind = "undo" /\ RunBack(1, 0).n = 1
    /\ Len(RunBack(1, 0).before) = 1
    /\ RunBack(1, 1).kind = "erase"
    /\ Len(RunBack(1, 1).before) = 2
    /\ RunBack(1, 0).before[1] = RunBack(1, 1).before[2]

\* C34: on every page, after m consecutive undos of a list S, each of which
\* removed a stroke, and then j <= m consecutive redos, the list is S
\* without its last m - j strokes: the last k undos and the k redos that
\* follow them cancel, and k undos followed by k redos restore S exactly.
\* Each such undo lengthens the undo history by one and each redo shortens
\* it by one, so it is as long as before the first undo.
C34_UndosThenRedosRestore ==
    [][/\ \A i \in 1..Len(pages) :
              (/\ Len(RunsOf(i)) >= 2
               /\ RunBack(i, 0).kind = "redo"
               /\ RunBack(i, 1).kind = "undo"
               /\ RunBack(i, 0).n <= RunBack(i, 1).n)
              => pages[i].strokes =
                     SubSeq(RunBack(i, 1).before, 1,
                            Len(RunBack(i, 1).before) - RunBack(i, 1).n
                                + RunBack(i, 0).n)
       /\ (op' = "undo" /\ Page.strokes # <<>>)
              => Len(Page'.undo_stack) = Len(Page.undo_stack) + 1
       /\ (op' = "redo" /\ Page.undo_stack # <<>>)
              => Len(Page'.undo_stack) = Len(Page.undo_stack) - 1]_vars

\* C34 witness: two undos emptied a list of two different strokes and two
\* redos have brought both back.
C34_Witness ==
    /\ op = "redo"
    /\ Len(Runs) >= 2
    /\ RunBack(1, 0).kind = "redo" /\ RunBack(1, 0).n = 2
    /\ RunBack(1, 1).kind = "undo" /\ RunBack(1, 1).n = 2
    /\ Len(RunBack(1, 1).before) = 2
    /\ RunBack(1, 1).before[1] # RunBack(1, 1).before[2]
    /\ Page.strokes = RunBack(1, 1).before

C36_RedoStackAlwaysEmpty ==
    /\ [](\A i \in 1..Len(pages) : pages[i].redo_stack = <<>>)
    /\ [][(op' = "redo" /\ Page'.strokes # Page.strokes)
             => /\ Page.undo_stack # <<>>
                /\ Page'.strokes = Last(Page.undo_stack)
                /\ Page'.undo_stack = Front(Page.undo_stack)]_vars

\* C36 witness: after a commit, an undo and a redo that brought the stroke
\* back, redo_stack is empty and so is the undo history the redo drew from.
C36_Witness ==
    /\ op = "redo"
    /\ Len(Runs) >= 3
    /\ RunBack(current_page_idx + 1, 0).kind = "redo"
    /\ RunBack(current_page_idx + 1, 1).kind = "undo"
    /\ RunBack(current_page_idx + 1, 2).kind \in Commits
    /\ Page.strokes # <<>>
    /\ Page.redo_stack = <<>>
    /\ Page.undo_stack = <<>>

\* C37: set_tool leaves the current colour as it is unless the tool is the
\* eraser and the current page has a background other than none, and then
\* the colour becomes #f8f9fa; only set_tool and set_color change the
\* colour, so it stays #f8f9fa when another tool is selected; and a stroke
\* of a drag that starts and ends with the colour #f8f9fa is committed in
\* #f8f9fa.
C37_EraserColorPersists ==
    [][/\ op' = "set_tool"
              => current_color' =
                     IF current_tool' = "ERASER" /\ Page.background # "none"
                     THEN EraserColor ELSE current_color
       /\ current_color' # current_color => op' \in {"set_tool", "set_color"}
       /\ (/\ op' = "release"
           /\ Len(Page'.strokes) = Len(Page.strokes) + 1
           /\ pressed # None
           /\ pressed[1].color = EraserColor
           /\ current_color = EraserColor)
              => Last(Page'.strokes).color = EraserColor]_vars

\* C37 witness: after the eraser was selected on a white page and the pen
\* after it, a pen stroke has been committed in #f8f9fa.
C37_Witness ==
    /\ op = "release"
    /\ Page.background = "white"
    /\ current_tool = "PEN"
    /\ Page.strokes # <<>>
    /\ Last(Page.strokes).tool = "PEN"
    /\ Last(Page.strokes).color = EraserColor
    /\ current_color = EraserColor

\* C38: set_tool sets the width and the opacity to the defaults of the
\* selected tool (pen, line, rectangle, circle and arrow 3.0 and 1.0,
\* highlighter 20.0 and 0.35, chisel 8.0 and 1.0, eraser 25.0 and 1.0, and
\* 3.0 and 1.0 for the cursor, which has no entry), whatever the width was
\* before, and it leaves the pages, their strokes and histories and the
\* current page as they are.
C38_ToolDefaultsReplaceWidth ==
    [][op' = "set_tool"
       => LET t == current_tool'
          IN  /\ current_width' =
                     CASE t = "HIGHLIGHTER" -> 2000
                       [] t = "CHISEL" -> 800
                       [] t = "ERASER" -> 2500
                       [] OTHER -> 300
              /\ current_opacity' = IF t = "HIGHLIGHTER" THEN 35 ELSE 100
              /\ pages' = pages
              /\ current_page_idx' = current_page_idx]_vars

\* C38 witness: a stroke was committed at the highest width, and selecting
\* the cursor has since put the width back to 3.0 and the opacity to 1.0
\* with the stroke still on the page.
C38_Witness ==
    /\ op = "set_tool"
    /\ current_tool = "CURSOR"
    /\ current_width = DefaultWidth
    /\ current_opacity = DefaultOpacity
    /\ Page.strokes # <<>>
    /\ Last(Page.strokes).width = MaxWidth

====
